---- MODULE Spec2Model ----
(***************************************************************************)
(* A model of the gintendo NES emulator core: the MOS 6502 interpreter     *)
(* (package mos6502), the PPU (package ppu), the system bus (package       *)
(* console) and the cartridge mapper (packages mappers and nesrom).        *)
(*                                                                         *)
(* The Go code is single threaded apart from the cancel signal of         *)
(* Bus.Run.  Every method is modelled as an operator from a machine        *)
(* record to a machine record; an action applies one public method.        *)
(* A Go panic is modelled by the field "fault" of the machine record.      *)
(***************************************************************************)
EXTENDS Integers, Sequences, FiniteSets, TLC

VARIABLES cpu, ppu, ram, cart, fault, busKind, ticks, runPos, cancelled, hist

vars == <<cpu, ppu, ram, cart, fault, busKind, ticks, runPos, cancelled, hist>>

(***************************************************************************)
(* Fixed-width integer arithmetic.                                         *)
(***************************************************************************)
U8(n) == n % 256

U16(n) == n % 65536

RECURSIVE BitAnd(_, _)
BitAnd(a, b) ==
  IF a = 0 \/ b = 0 THEN 0
  ELSE (a % 2) * (b % 2) + 2 * BitAnd(a \div 2, b \div 2)

RECURSIVE BitOr(_, _)
BitOr(a, b) ==
  IF a = 0 THEN b
  ELSE IF b = 0 THEN a
  ELSE (IF (a % 2) + (b % 2) > 0 THEN 1 ELSE 0) + 2 * BitOr(a \div 2, b \div 2)

RECURSIVE BitXor(_, _)
BitXor(a, b) ==
  IF a = 0 THEN b
  ELSE IF b = 0 THEN a
  ELSE ((a + b) % 2) + 2 * BitXor(a \div 2, b \div 2)

\* a &^ b on 16-bit operands
AndNot(a, b) == BitAnd(a, 65535 - b)

Pow2(n) == 2 ^ n

Shl8(a, n) == (a * Pow2(n)) % 256

Shl16(a, n) == (a * Pow2(n)) % 65536

Shr(a, n) == a \div Pow2(n)

\* int8(b): the signed value of a byte
Int8(b) == IF b >= 128 THEN b - 256 ELSE b

(***************************************************************************)
(* Go slices and arrays of bytes are kept sparse: a function from the      *)
(* written indices to their non-zero values; every other cell is 0, the    *)
(* value make() leaves there.                                              *)
(***************************************************************************)
Empty == [i \in {} |-> 0]

Rd(f, a) == IF a \in DOMAIN f THEN f[a] ELSE 0

Wr(f, a, val) ==
  IF val = 0
    THEN [i \in (DOMAIN f) \ {a} |-> f[i]]
    ELSE [i \in (DOMAIN f) \cup {a} |-> IF i = a THEN val ELSE f[i]]

(***************************************************************************)
(* The machine record the operators below transform.                       *)
(*   cpu     mos6502.CPU: acc, x, y, status, sp, pc, cycles,               *)
(*           pendingInterrupt                                              *)
(*   ppu     ppu.PPU                                                       *)
(*   ram     the memory behind the mos6502.Bus interface: console.Bus.ram  *)
(*           (busKind "console") or the flat test memory mem.data          *)
(*           (busKind "mem")                                               *)
(*   cart    the mapper and the ROM it was initialised with                *)
(*   fault   "none", or the Go panic that ended the program                *)
(***************************************************************************)
Mach == [cpu |-> cpu, ppu |-> ppu, ram |-> ram, cart |-> cart,
         fault |-> fault, busKind |-> busKind]

Panic(m, what) == IF m.fault = "none" THEN [m EXCEPT !.fault = what] ELSE m

(***************************************************************************)
(* nesrom: header flags and the ROM's blocks.                              *)
(***************************************************************************)
MIRRORING == 1

IGNORE_MIRRORING == 8

MIRROR_HORIZONTAL == 0

MIRROR_VERTICAL == 1

MIRROR_FOUR_SCREEN == 2

PRG_BLOCK_SIZE == 16384

CHR_BLOCK_SIZE == 8192

mirroringMode(flags6) ==
  IF BitAnd(flags6, IGNORE_MIRRORING) > 0 THEN MIRROR_FOUR_SCREEN
  ELSE BitAnd(flags6, MIRRORING)

\* len(r.prg) and len(r.chr) as nesrom.New allocates them
PrgLen(c) == PRG_BLOCK_SIZE * c.prgSize

ChrLen(c) == CHR_BLOCK_SIZE * c.chrSize

(***************************************************************************)
(* mappers: mapper 0 (NROM).  prgRAM is make([]uint8, 0x7FFF-0x6000).      *)
(***************************************************************************)
NES_BASE_MEMORY == 2048

PRG_RAM_LEN == 8191

\* the index mapper0.MemRead / MemWrite use, as a record [kind, idx, ok];
\* ok is FALSE when the index is outside the slice (Go panics)
mapper0Index(c, addr) ==
  IF addr < NES_BASE_MEMORY THEN [kind |-> "base", idx |-> addr, ok |-> TRUE]
  ELSE IF 2048 <= addr /\ addr <= 8191
    THEN [kind |-> "base", idx |-> (addr - 2048) % NES_BASE_MEMORY, ok |-> TRUE]
  ELSE IF 24576 <= addr /\ addr <= 32767
    THEN [kind |-> "prgRAM", idx |-> addr - 24576, ok |-> addr - 24576 < PRG_RAM_LEN]
  ELSE IF 32768 <= addr /\ addr <= 65535
    THEN LET i == IF c.prgSize = 2 THEN addr - 32768 ELSE U16(addr - 49152 + 65536)
         IN [kind |-> "prg", idx |-> i, ok |-> i < PrgLen(c)]
  ELSE [kind |-> "none", idx |-> 0, ok |-> TRUE]

\* mapper0.MemRead: the byte read, and whether the read panics
MemRead(c, addr) ==
  LET ix == mapper0Index(c, addr)
  IN IF ~ix.ok THEN [val |-> 0, ok |-> FALSE]
     ELSE [ok |-> TRUE,
           val |-> CASE ix.kind = "base" -> Rd(c.baseRAM, ix.idx)
                     [] ix.kind = "prgRAM" -> Rd(c.prgRAM, ix.idx)
                     [] ix.kind = "prg" -> Rd(c.prg, ix.idx)
                     [] OTHER -> 0]

\* mapper0.MemWrite: the cartridge after the write, and whether it panics
MemWrite(c, addr, val) ==
  LET ix == mapper0Index(c, addr)
  IN IF ~ix.ok THEN [c |-> c, ok |-> FALSE]
     ELSE [ok |-> TRUE,
           c |-> CASE ix.kind = "base" -> [c EXCEPT !.baseRAM = Wr(@, ix.idx, val)]
                   [] ix.kind = "prgRAM" -> [c EXCEPT !.prgRAM = Wr(@, ix.idx, val)]
                   [] ix.kind = "prg" -> [c EXCEPT !.prg = Wr(@, ix.idx, val)]
                   [] OTHER -> c]

\* Mapper.PrgRead / Mapper.PrgWrite as console.Bus calls them
PrgRead(m, addr) ==
  LET r == MemRead(m.cart, addr)
  IN [val |-> r.val, m |-> IF r.ok THEN m ELSE Panic(m, "index out of range")]

PrgWrite(m, addr, val) ==
  LET r == MemWrite(m.cart, addr, val)
  IN IF r.ok THEN [m EXCEPT !.cart = r.c] ELSE Panic(m, "index out of range")

\* Mapper.ChrRead: ROM.ChrRead, r.chr[addr]
ChrRead(m, addr) ==
  IF addr < ChrLen(m.cart)
    THEN [val |-> Rd(m.cart.chr, addr), m |-> m]
    ELSE [val |-> 0, m |-> Panic(m, "index out of range")]

\* baseMapper.MirroringMode
MirroringMode(c) == mirroringMode(c.flags6)

(***************************************************************************)
(* ppu: the loopy registers v and t (type loopy uint16).                   *)
(***************************************************************************)
coarseX(l) == BitAnd(l, 31)

resetCoarseX(l) == BitAnd(l, 65504)

setCoarseX(l, n) == BitOr(BitAnd(l, 65504), n)

incrementCoarseX(l) == U16(l + 1)

coarseY(l) == Shr(BitAnd(l, 992), 5)

incrementCoarseY(l) == U16(l + 32)

resetCoarseY(l) == BitAnd(l, 64543)

setCoarseY(l, n) == BitOr(BitAnd(l, 64543), Shl16(n, 5))

nametableX(l) == Shr(BitAnd(l, 1024), 10)

setNametableX(l, val) == BitOr(BitAnd(l, 64511), Shl16(BitAnd(val, 1), 10))

toggleNametableX(l) == BitXor(l, 1024)

nametableY(l) == Shr(BitAnd(l, 2048), 11)

toggleNametableY(l) == BitXor(l, 2048)

setNametableY(l, val) == BitOr(BitAnd(l, 63487), Shl16(BitAnd(val, 1), 11))

fineY(l) == Shr(BitAnd(l, 28672), 12)

incrementFineY(l) == U16(l + 4096)

\* *l = loopy(uint16(*l) & (0x0FFF | (uint16(n) << 12)))
setFineY(l, n) == BitAnd(l, BitOr(4095, Shl16(n, 12)))

resetFineY(l) == BitAnd(l, 4095)

(***************************************************************************)
(* ppu: registers, flags and the address map.                              *)
(***************************************************************************)
PPUCTRL == 8192

PPUMASK == 8193

PPUSTATUS == 8194

OAMADDR == 8195

OAMDATA == 8196

PPUSCROLL == 8197

PPUADDR == 8198

PPUDATA == 8199

CTRL_VRAM_ADD_INCREMENT == 4

CTRL_BACKGROUND_PATTERN_ADDR == 16

CTRL_GENERATE_NMI == 128

STATUS_VERTICAL_BLANK == 128

MASK_GREYSCALE == 1

MASK_RENDER_BG == 8

MASK_RENDER_FG == 16

BASE_NAMETABLE == 8192

ATTRIBUTE_OFFSET == 960

NAMETABLE_MIRROR_END == 16127

PALETTE_RAM == 16128

PALETTE_MIRROR_END == 16383

\* PPU.Reset applied to the zero PPU that New builds
NewPPU(mm) ==
  [ctrl |-> 0, mask |-> 0, status |-> 0, oamaddr |-> 0,
   scanline |-> 0, scandot |-> 0, frame |-> 0, oddFrame |-> FALSE,
   v |-> 0, t |-> 0, x |-> 0, wLatch |-> 0, bufferData |-> 0,
   bgSPLo |-> 0, bgSPHi |-> 0, bgSALo |-> 0, bgSAHi |-> 0,
   bgNextTile |-> 0, bgNextAttrib |-> 0, bgNextTileLSB |-> 0, bgNextTileMSB |-> 0,
   oamData |-> Empty, vram |-> Empty, paletteTable |-> Empty,
   mirrorMode |-> mm, pixel |-> <<>>, nmiCalls |-> 0, oamWrites |-> 0]

PPUReset(p) ==
  [p EXCEPT !.scandot = 0, !.scanline = 0, !.frame = 0, !.wLatch = 0,
            !.oddFrame = FALSE, !.ctrl = 0, !.mask = 0, !.status = 0]

vramIncrement(p) ==
  IF Shr(BitAnd(p.ctrl, CTRL_VRAM_ADD_INCREMENT), 2) = 0
    THEN [p EXCEPT !.v = incrementCoarseX(@)]
    ELSE [p EXCEPT !.v = incrementCoarseY(@)]

\* a mapping that takes the vertical arrangement for the horizontal one
tileMapAddrSwapped(p, addr) ==
  LET a == BitAnd(addr, 4095)
  IN CASE p.mirrorMode = MIRROR_FOUR_SCREEN -> [idx |-> a, ok |-> FALSE]
       [] p.mirrorMode = MIRROR_HORIZONTAL ->
            [ok |-> TRUE,
             idx |-> IF (a >= 0 /\ a <= 1023) \/ (a >= 2048 /\ a <= 3071)
                       THEN BitAnd(a, 1023)
                     ELSE IF (a >= 1024 /\ a <= 2047) \/ (a >= 3072 /\ a <= 4095)
                       THEN BitAnd(a, 1023) + 1024
                     ELSE a]
       [] p.mirrorMode = MIRROR_VERTICAL ->
            [ok |-> TRUE,
             idx |-> IF a >= 0 /\ a <= 2047 THEN BitAnd(a, 1023)
                     ELSE IF a >= 2048 /\ a <= 4095 THEN BitAnd(a, 1023) + 1024
                     ELSE a]
       [] OTHER -> [idx |-> a, ok |-> TRUE]

\* tileMapAddr: the index into vram, and ok = FALSE where the code panics
tileMapAddr(p, addr) ==
  LET a == BitAnd(addr, 4095)
  IN CASE p.mirrorMode = MIRROR_FOUR_SCREEN -> [idx |-> a, ok |-> FALSE]
       [] p.mirrorMode = MIRROR_VERTICAL ->
            [ok |-> TRUE,
             idx |-> IF (a >= 0 /\ a <= 1023) \/ (a >= 2048 /\ a <= 3071)
                       THEN BitAnd(a, 1023)
                     ELSE IF (a >= 1024 /\ a <= 2047) \/ (a >= 3072 /\ a <= 4095)
                       THEN BitAnd(a, 1023) + 1024
                     ELSE a]
       [] p.mirrorMode = MIRROR_HORIZONTAL ->
            [ok |-> TRUE,
             idx |-> IF a >= 0 /\ a <= 2047 THEN BitAnd(a, 1023)
                     ELSE IF a >= 2048 /\ a <= 4095 THEN BitAnd(a, 1023) + 1024
                     ELSE a]
       [] OTHER -> [idx |-> a, ok |-> TRUE]

\* the palette index PPU.read uses: 0x10/0x14/0x18/0x1C fold onto 0x00/0x04/0x08/0x0C
readPaletteIndex(a) ==
  LET i == BitAnd(a, 31)
  IN IF i \in {16, 20, 24, 28} THEN i - 16 ELSE i

\* PPU.read: [val, m]; the vram array has 2048 cells
read(m, addr) ==
  LET a == BitAnd(addr, 16383)
      p == m.ppu
  IN IF a < BASE_NAMETABLE THEN ChrRead(m, a)
     ELSE IF a <= NAMETABLE_MIRROR_END
       THEN LET ta == tileMapAddr(p, BitAnd(a, 4095) + BASE_NAMETABLE)
            IN IF ~ta.ok THEN [val |-> 0, m |-> Panic(m, "four-screen mirroring")]
               ELSE IF ta.idx >= 2048 THEN [val |-> 0, m |-> Panic(m, "index out of range")]
               ELSE [val |-> Rd(p.vram, ta.idx), m |-> m]
     ELSE LET val == Rd(p.paletteTable, readPaletteIndex(a))
          IN [m |-> m,
              val |-> IF BitAnd(p.mask, MASK_GREYSCALE) = 0
                        THEN BitAnd(val, 63) ELSE BitAnd(val, 48)]

\* PPU.write
write(m, addr, val) ==
  LET a == BitAnd(addr, 16383)
      p == m.ppu
  IN IF a < BASE_NAMETABLE THEN m
     ELSE IF a <= NAMETABLE_MIRROR_END
       THEN LET ta == tileMapAddr(p, BitAnd(a, 4095) + BASE_NAMETABLE)
            IN IF ~ta.ok THEN Panic(m, "four-screen mirroring")
               ELSE IF ta.idx >= 2048 THEN Panic(m, "index out of range")
               ELSE [m EXCEPT !.ppu.vram = Wr(@, ta.idx, val)]
     ELSE [m EXCEPT !.ppu.paletteTable = Wr(@, BitAnd(a, 31), val)]

clearVBlank(p) == [p EXCEPT !.status = AndNot(@, STATUS_VERTICAL_BLANK)]

setVBlank(p) == [p EXCEPT !.status = BitOr(@, STATUS_VERTICAL_BLANK)]

\* nmiEnabled blind to ctrl
nmiEnabledAlways(p) == TRUE

nmiEnabled(p) == BitAnd(p.ctrl, CTRL_GENERATE_NMI) > 0

renderBackground(p) == BitAnd(p.mask, MASK_RENDER_BG) > 0

renderForeground(p) == BitAnd(p.mask, MASK_RENDER_FG) > 0

\* rendering taken as enabled whatever PPUMASK holds
renderingAlways(p) == TRUE

renderingEnabled(p) == renderBackground(p) \/ renderForeground(p)

backgroundTableID(p) == Shr(BitAnd(p.ctrl, CTRL_BACKGROUND_PATTERN_ADDR), 4)

\* a register write whose first PPUADDR write keeps all eight bits of val
WriteRegNoMask(m, r, val) ==
  LET p == m.ppu
  IN CASE r = PPUCTRL ->
            [m EXCEPT !.ppu.ctrl = val,
                      !.ppu.t = setNametableY(setNametableX(@, val), Shr(val, 1))]
       [] r = PPUMASK -> [m EXCEPT !.ppu.mask = val]
       [] r = OAMADDR -> [m EXCEPT !.ppu.oamaddr = val]
       [] r = OAMDATA ->
            [m EXCEPT !.ppu.oamData = Wr(@, p.oamaddr, val),
                      !.ppu.oamaddr = U8(@ + 1),
                      !.ppu.oamWrites = @ + 1]
       [] r = PPUSCROLL ->
            IF p.wLatch = 0
              THEN [m EXCEPT !.ppu.t = setCoarseX(@, Shr(val, 3)),
                             !.ppu.x = BitAnd(val, 7),
                             !.ppu.wLatch = 1]
              ELSE [m EXCEPT !.ppu.t = setFineY(setCoarseY(@, Shr(BitAnd(val, 248), 3)),
                                                BitAnd(val, 7)),
                             !.ppu.wLatch = 0]
       [] r = PPUADDR ->
            IF p.wLatch = 0
              THEN [m EXCEPT !.ppu.t = BitOr(Shl16(val, 8), BitAnd(p.t, 255)),
                             !.ppu.wLatch = 1]
              ELSE LET nt == BitOr(BitAnd(p.t, 65280), val)
                   IN [m EXCEPT !.ppu.t = nt, !.ppu.v = nt, !.ppu.wLatch = 0]
       [] r = PPUDATA ->
            LET inc(m1) == IF m1.fault # "none" THEN m1
                           ELSE [m1 EXCEPT !.ppu = vramIncrement(@)]
            IN inc(write(m, p.v, val))
       [] OTHER -> m

\* PPU.WriteReg
WriteReg(m, r, val) ==
  LET p == m.ppu
  IN CASE r = PPUCTRL ->
            [m EXCEPT !.ppu.ctrl = val,
                      !.ppu.t = setNametableY(setNametableX(@, val), Shr(val, 1))]
       [] r = PPUMASK -> [m EXCEPT !.ppu.mask = val]
       [] r = OAMADDR -> [m EXCEPT !.ppu.oamaddr = val]
       [] r = OAMDATA ->
            [m EXCEPT !.ppu.oamData = Wr(@, p.oamaddr, val),
                      !.ppu.oamaddr = U8(@ + 1),
                      !.ppu.oamWrites = @ + 1]
       [] r = PPUSCROLL ->
            IF p.wLatch = 0
              THEN [m EXCEPT !.ppu.t = setCoarseX(@, Shr(val, 3)),
                             !.ppu.x = BitAnd(val, 7),
                             !.ppu.wLatch = 1]
              ELSE [m EXCEPT !.ppu.t = setFineY(setCoarseY(@, Shr(BitAnd(val, 248), 3)),
                                                BitAnd(val, 7)),
                             !.ppu.wLatch = 0]
       [] r = PPUADDR ->
            IF p.wLatch = 0
              THEN [m EXCEPT !.ppu.t = BitOr(Shl16(BitAnd(val, 63), 8), BitAnd(p.t, 255)),
                             !.ppu.wLatch = 1]
              ELSE LET nt == BitOr(BitAnd(p.t, 65280), val)
                   IN [m EXCEPT !.ppu.t = nt, !.ppu.v = nt, !.ppu.wLatch = 0]
       [] r = PPUDATA ->
            LET inc(m1) == IF m1.fault # "none" THEN m1
                           ELSE [m1 EXCEPT !.ppu = vramIncrement(@)]
            IN inc(write(m, p.v, val))
       [] OTHER -> m

\* a register read whose PPUSTATUS case leaves the write latch as it is
ReadRegKeepsLatch(m, r) ==
  LET p == m.ppu
  IN CASE r = PPUSTATUS ->
            [val |-> BitOr(BitAnd(p.status, 224), BitAnd(p.bufferData, 31)),
             m |-> [m EXCEPT !.ppu = clearVBlank(p)]]
       [] r = OAMDATA -> [val |-> Rd(p.oamData, p.oamaddr), m |-> m]
       [] r = PPUDATA ->
            LET data(rr) ==
                  IF rr.m.fault # "none" THEN [val |-> 0, m |-> rr.m]
                  ELSE [val |-> IF p.v > 16128 THEN rr.val ELSE p.bufferData,
                        m |-> [m EXCEPT !.ppu =
                                 vramIncrement([p EXCEPT !.bufferData = rr.val])]]
            IN data(read(m, p.v))
       [] OTHER -> [val |-> 0, m |-> m]

\* PPU.ReadReg: [val, m]
ReadReg(m, r) ==
  LET p == m.ppu
  IN CASE r = PPUSTATUS ->
            [val |-> BitOr(BitAnd(p.status, 224), BitAnd(p.bufferData, 31)),
             m |-> [m EXCEPT !.ppu = [clearVBlank(p) EXCEPT !.wLatch = 0]]]
       [] r = OAMDATA -> [val |-> Rd(p.oamData, p.oamaddr), m |-> m]
       [] r = PPUDATA ->
            LET data(rr) ==
                  IF rr.m.fault # "none" THEN [val |-> 0, m |-> rr.m]
                  ELSE [val |-> IF p.v > 16128 THEN rr.val ELSE p.bufferData,
                        m |-> [m EXCEPT !.ppu =
                                 vramIncrement([p EXCEPT !.bufferData = rr.val])]]
            IN data(read(m, p.v))
       [] OTHER -> [val |-> 0, m |-> m]

(***************************************************************************)
(* ppu: the scanline / dot state machine.                                  *)
(***************************************************************************)
visibleLine(p) == p.scanline >= 0 /\ p.scanline < 240

visibleDot(p) == p.scandot >= 1 /\ p.scandot <= 256

prerenderLine(p) == p.scanline = 261

renderLine(p) == visibleLine(p) \/ prerenderLine(p)

vblankLine(p) == ~renderLine(p)

prefetchCycle(p) == p.scandot >= 321 /\ p.scandot <= 336

fetchCycle(p) == visibleDot(p) \/ prefetchCycle(p)

\* a dot counter that wraps one dot late
incrementScanLate(p) ==
  IF renderingEnabled(p) /\ p.oddFrame /\ prerenderLine(p) /\ p.scandot = 339
    THEN [p EXCEPT !.scandot = 0, !.scanline = 0, !.frame = @ + 1,
                   !.oddFrame = ~p.oddFrame]
  ELSE IF p.scandot + 1 > 341
    THEN IF p.scanline + 1 > 261
           THEN [p EXCEPT !.scandot = 0, !.scanline = 0, !.frame = @ + 1,
                          !.oddFrame = ~p.oddFrame]
           ELSE [p EXCEPT !.scandot = 0, !.scanline = @ + 1]
  ELSE [p EXCEPT !.scandot = @ + 1]

\* a scan that skips the last dot of the pre-render line whenever rendering
\* is on, in even frames too
incrementScanEveryFrame(p) ==
  IF renderingEnabled(p) /\ prerenderLine(p) /\ p.scandot = 339
    THEN [p EXCEPT !.scandot = 0, !.scanline = 0, !.frame = @ + 1,
                   !.oddFrame = ~p.oddFrame]
  ELSE IF p.scandot + 1 >= 341
    THEN IF p.scanline + 1 > 261
           THEN [p EXCEPT !.scandot = 0, !.scanline = 0, !.frame = @ + 1,
                          !.oddFrame = ~p.oddFrame]
           ELSE [p EXCEPT !.scandot = 0, !.scanline = @ + 1]
  ELSE [p EXCEPT !.scandot = @ + 1]

incrementScan(p) ==
  IF renderingEnabled(p) /\ p.oddFrame /\ prerenderLine(p) /\ p.scandot = 339
    THEN [p EXCEPT !.scandot = 0, !.scanline = 0, !.frame = @ + 1, !.oddFrame = ~@]
  ELSE IF p.scandot + 1 >= 341
    THEN IF p.scanline + 1 > 261
           THEN [p EXCEPT !.scandot = 0, !.scanline = 0, !.frame = @ + 1, !.oddFrame = ~@]
           ELSE [p EXCEPT !.scandot = 0, !.scanline = @ + 1]
  ELSE [p EXCEPT !.scandot = @ + 1]

loadBGShifters(p) ==
  [p EXCEPT !.bgSPLo = BitOr(BitAnd(@, 65280), p.bgNextTileLSB),
            !.bgSPHi = BitOr(BitAnd(@, 65280), p.bgNextTileMSB),
            !.bgSALo = BitOr(BitAnd(@, 65280),
                             IF BitAnd(p.bgNextAttrib, 1) = 1 THEN 255 ELSE 0),
            !.bgSAHi = BitOr(BitAnd(@, 65280),
                             IF BitAnd(p.bgNextAttrib, 2) = 2 THEN 255 ELSE 0)]

updateBGShifters(p) ==
  IF renderBackground(p)
    THEN [p EXCEPT !.bgSPLo = Shl16(@, 1), !.bgSPHi = Shl16(@, 1),
                   !.bgSALo = Shl16(@, 1), !.bgSAHi = Shl16(@, 1)]
    ELSE p

\* the attribute bits updateBG keeps of the byte it read
attribBits(l, b) ==
  LET b1 == IF BitAnd(coarseY(l), 2) > 0 THEN Shr(b, 4) ELSE b
      b2 == IF BitAnd(coarseX(l), 2) > 0 THEN Shr(b1, 2) ELSE b1
  IN BitAnd(b2, 3)

updateBG(m) ==
  LET p == updateBGShifters(m.ppu)
      m0 == [m EXCEPT !.ppu = p]
      k == p.scandot % 8
      tile(r) == [r.m EXCEPT !.ppu.bgNextTile = r.val]
      attrib(r) == [r.m EXCEPT !.ppu.bgNextAttrib = attribBits(p.v, r.val)]
      lsb(r) == [r.m EXCEPT !.ppu.bgNextTileLSB = r.val]
      msb(r) == [r.m EXCEPT !.ppu.bgNextTileMSB = r.val]
  IN CASE k = 1 -> tile(read(m0, BitOr(BASE_NAMETABLE, BitAnd(p.v, 4095))))
       [] k = 3 ->
            attrib(read(m0, BitOr(BitOr(BitOr(BASE_NAMETABLE, ATTRIBUTE_OFFSET),
                                        BitOr(Shl16(nametableY(p.v), 11),
                                              Shl16(nametableX(p.v), 10))),
                                  BitOr(Shl16(Shr(coarseY(p.v), 2), 3),
                                        Shr(coarseX(p.v), 2)))))
       [] k = 5 ->
            lsb(read(m0, U16(Shl16(backgroundTableID(p), 12)
                             + Shl16(p.bgNextTile, 4) + fineY(p.v))))
       [] k = 7 ->
            msb(read(m0, U16(Shl16(backgroundTableID(p), 12)
                             + Shl16(p.bgNextTile, 4) + fineY(p.v) + 8)))
       [] k = 0 -> [m0 EXCEPT !.ppu = loadBGShifters(p)]
       [] OTHER -> m0

\* renderPixel: the framebuffer is reduced to the last pixel set,
\* <<x, y, index into SYSTEM_PALETTE>>
renderPixel(m) ==
  LET p == m.ppu
      fx == Shr(32768, p.x)
      bit(sh) == IF BitAnd(sh, fx) > 0 THEN 1 ELSE 0
      pix == IF renderBackground(p) THEN 2 * bit(p.bgSPHi) + bit(p.bgSPLo) ELSE 0
      pal == IF renderBackground(p) THEN 2 * bit(p.bgSAHi) + bit(p.bgSALo) ELSE 0
      set(r) == [r.m EXCEPT !.ppu.pixel = <<p.scandot - 1, p.scanline, BitAnd(r.val, 63)>>]
  IN set(read(m, PALETTE_RAM + Shl16(pal, 2) + pix))

\* CPU.TriggerNMI, reached through Bus.TriggerNMI
INT_NONE == 0

INT_IRQ == 65534

INT_BRK == 65534

INT_RESET == 65532

INT_NMI == 65530

\* CPU.TriggerNMI
CPUTriggerNMI(m) == [m EXCEPT !.cpu.pendingInterrupt = INT_NMI]

\* Bus.TriggerNMI, called by the PPU; nmiCalls counts the calls
TriggerNMI(m) == CPUTriggerNMI([m EXCEPT !.ppu.nmiCalls = @ + 1])

\* the scroll updates with the row 31 switching the vertical nametable as
\* the row 29 does
tickScrollToggle31(p) ==
  LET p1 == IF renderingEnabled(p) /\ renderLine(p) /\ fetchCycle(p) /\ p.scandot % 8 = 0
              THEN IF coarseX(p.v) = 31
                     THEN [p EXCEPT !.v = toggleNametableX(resetCoarseX(@))]
                     ELSE [p EXCEPT !.v = incrementCoarseX(@)]
              ELSE p
      p2 == IF renderingEnabled(p) /\ renderLine(p) /\ fetchCycle(p) /\ p.scandot = 256
              THEN loadBGShifters(
                     IF fineY(p1.v) < 7
                       THEN [p1 EXCEPT !.v = incrementFineY(@)]
                     ELSE IF coarseY(resetFineY(p1.v)) = 29
                       THEN [p1 EXCEPT !.v = toggleNametableY(resetCoarseY(resetFineY(@)))]
                     ELSE IF coarseY(resetFineY(p1.v)) = 31
                       THEN [p1 EXCEPT !.v = toggleNametableY(resetCoarseY(resetFineY(@)))]
                     ELSE [p1 EXCEPT !.v = incrementCoarseY(resetFineY(@))])
              ELSE p1
  IN IF renderingEnabled(p) /\ renderLine(p) /\ p.scandot = 257
       THEN [p2 EXCEPT !.v = setNametableX(setCoarseX(@, coarseX(p.t)), nametableX(p.t))]
       ELSE p2

\* the scroll updates of Tick ("Handle scroll here")
tickScroll(p) ==
  LET p1 == IF renderingEnabled(p) /\ renderLine(p) /\ fetchCycle(p) /\ p.scandot % 8 = 0
              THEN IF coarseX(p.v) = 31
                     THEN [p EXCEPT !.v = toggleNametableX(resetCoarseX(@))]
                     ELSE [p EXCEPT !.v = incrementCoarseX(@)]
              ELSE p
      p2 == IF renderingEnabled(p) /\ renderLine(p) /\ fetchCycle(p) /\ p.scandot = 256
              THEN loadBGShifters(
                     IF fineY(p1.v) < 7
                       THEN [p1 EXCEPT !.v = incrementFineY(@)]
                     ELSE IF coarseY(resetFineY(p1.v)) = 29
                       THEN [p1 EXCEPT !.v = toggleNametableY(resetCoarseY(resetFineY(@)))]
                     ELSE IF coarseY(resetFineY(p1.v)) = 31
                       THEN [p1 EXCEPT !.v = resetCoarseY(resetFineY(@))]
                     ELSE [p1 EXCEPT !.v = incrementCoarseY(resetFineY(@))])
              ELSE p1
  IN IF renderingEnabled(p) /\ renderLine(p) /\ p.scandot = 257
       THEN [p2 EXCEPT !.v = setNametableX(setCoarseX(@, coarseX(p.t)), nametableX(p.t))]
       ELSE p2

\* the pre-render part of Tick
tickPrerender(m) ==
  LET p == m.ppu
      copyY(m2) ==
        IF renderingEnabled(p) /\ p.scandot >= 280 /\ p.scandot <= 304
          THEN [m2 EXCEPT !.ppu.v = setCoarseY(setNametableY(setFineY(@, fineY(p.t)),
                                                              nametableY(p.t)),
                                               coarseY(p.t))]
          ELSE m2
      fetch(m1) == IF renderingEnabled(p) /\ fetchCycle(p) THEN updateBG(m1) ELSE m1
  IN copyY(fetch(IF p.scandot = 1 THEN [m EXCEPT !.ppu = clearVBlank(@)] ELSE m))

\* the visible-line part of Tick
tickVisible(m) ==
  LET fetch(m1) == IF m1.fault = "none" /\ fetchCycle(m.ppu) THEN updateBG(m1) ELSE m1
  IN fetch(IF visibleDot(m.ppu) THEN renderPixel(m) ELSE m)

\* PPU.Tick
PPUTick(m) ==
  LET pre(m0) == IF prerenderLine(m0.ppu) THEN tickPrerender(m0) ELSE m0
      vis(m1) == IF m1.fault = "none" /\ visibleLine(m1.ppu) THEN tickVisible(m1) ELSE m1
      scroll(m2) == IF m2.fault = "none" THEN [m2 EXCEPT !.ppu = tickScroll(@)] ELSE m2
      nmi(m4) == IF nmiEnabled(m4.ppu) THEN TriggerNMI(m4) ELSE m4
      vblank(m3) ==
        IF m3.fault = "none" /\ vblankLine(m3.ppu)
             /\ m3.ppu.scanline = 241 /\ m3.ppu.scandot = 1
          THEN nmi([m3 EXCEPT !.ppu = setVBlank(@)])
          ELSE m3
  IN vblank(scroll(vis(pre([m EXCEPT !.ppu = incrementScan(@)]))))

(***************************************************************************)
(* console: the system bus.  With busKind "mem" the CPU's Bus is the flat  *)
(* 64 KB memory of the mos6502 tests (type mem), which has no PPU behind   *)
(* it.                                                                     *)
(***************************************************************************)
MAX_NES_BASE_RAM == 8191

MAX_PPU_REG_MIRRORED == 16383

MAX_IO_REG == 16416

MAX_SRAM == 24576

MAX_ADDRESS == 65535

OAMDMA == 16404

DMA_CYCLES == 513

\* Bus.Read (console) and mem.Read (tests): [val, m]
BusRead(m, addr) ==
  IF m.busKind = "mem" THEN [val |-> Rd(m.ram, addr), m |-> m]
  ELSE IF addr <= MAX_NES_BASE_RAM THEN [val |-> Rd(m.ram, BitAnd(addr, 2047)), m |-> m]
  ELSE IF addr <= MAX_PPU_REG_MIRRORED THEN ReadReg(m, BitAnd(addr, 8199))
  ELSE IF addr < MAX_IO_REG THEN [val |-> 0, m |-> m]
  ELSE IF addr <= MAX_SRAM THEN [val |-> 0, m |-> m]
  ELSE PrgRead(m, addr)

AddDMACycles(m) == [m EXCEPT !.cpu.cycles = @ + DMA_CYCLES]

\* one iteration of the OAMDMA loop: b.ppu.WriteReg(ppu.OAMDATA, b.Read(addr))
dmaStep(m, addr) ==
  LET copy(r) == IF r.m.fault # "none" THEN r.m ELSE WriteReg(r.m, OAMDATA, r.val)
  IN IF m.fault # "none" THEN m ELSE copy(BusRead(m, addr))

\* the loop of the OAMDMA case, for addr := base; addr < base+256; addr++,
\* as the n iterations from addr on; the first half is evaluated once, as a
\* value x, before the second half starts from it
RECURSIVE dmaLoop(_, _, _)
dmaLoop(m, addr, n) ==
  IF n = 0 THEN m
  ELSE IF n = 1 THEN dmaStep(m, addr)
  ELSE LET h == n \div 2
       IN CHOOSE y \in {dmaLoop(x, addr + h, n - h) : x \in {dmaLoop(m, addr, h)}} : TRUE

\* the number of iterations of that loop: base+256 is a uint16
dmaCount(base) ==
  LET limit == U16(base + 256) IN IF base < limit THEN limit - base ELSE 0

\* Bus.Write (console) and mem.Write (tests)
BusWrite(m, addr, val) ==
  IF m.busKind = "mem" THEN [m EXCEPT !.ram = Wr(@, addr, val)]
  ELSE IF addr <= MAX_NES_BASE_RAM THEN [m EXCEPT !.ram = Wr(@, BitAnd(addr, 2047), val)]
  ELSE IF addr <= MAX_PPU_REG_MIRRORED THEN WriteReg(m, BitAnd(addr, 8199), val)
  ELSE IF addr < MAX_IO_REG
    THEN IF addr = OAMDMA
           THEN LET base == Shl16(val, 8)
                    charge(m1) == IF m1.fault # "none" THEN m1 ELSE AddDMACycles(m1)
                IN charge(dmaLoop(m, base, dmaCount(base)))
           ELSE m
  ELSE IF addr <= MAX_SRAM THEN m
  ELSE PrgWrite(m, addr, val)

(***************************************************************************)
(* A method call across a component boundary, dispatched by the method's   *)
(* name: the CPU reaches memory only through its Bus interface (c.mem.Read *)
(* and c.mem.Write), and the bus and the debugger call cpu.Step, cpu.Tick, *)
(* cpu.Reset and ppu.Tick.  Call is defined once all of them are.          *)
(***************************************************************************)
RECURSIVE Call(_, _, _)

\* c.mem.Read(addr): [val, m]
memRead(m, addr) == Call("Read", m, <<addr>>)

\* c.mem.Write(addr, val)
memWrite(m, addr, val) == Call("Write", m, <<addr, val>>)

(***************************************************************************)
(* mos6502: status flags and the helpers of the interpreter.               *)
(***************************************************************************)
STATUS_FLAG_CARRY == 1

STATUS_FLAG_ZERO == 2

STATUS_FLAG_INTERRUPT_DISABLE == 4

STATUS_FLAG_DECIMAL == 8

STATUS_FLAG_BREAK == 16

UNUSED_STATUS_FLAG == 32

STATUS_FLAG_OVERFLOW == 64

STATUS_FLAG_NEGATIVE == 128

STACK_PAGE == 256

flagsOn(m, mask) == [m EXCEPT !.cpu.status = BitOr(@, mask)]

flagsOff(m, mask) == [m EXCEPT !.cpu.status = AndNot(@, mask)]

setNegativeAndZeroFlags(m, n) ==
  LET m1 == flagsOff(m, STATUS_FLAG_NEGATIVE + STATUS_FLAG_ZERO)
      m2 == IF n = 0 THEN flagsOn(m1, STATUS_FLAG_ZERO) ELSE m1
  IN IF BitAnd(n, STATUS_FLAG_NEGATIVE) # 0 THEN flagsOn(m2, STATUS_FLAG_NEGATIVE) ELSE m2

\* Read16 with the high byte of every pointer fetched from addr + 1
Read16NoWrap(m, addr, mode) ==
  LET a1 == U16(addr + 1)
      high(lo) ==
        LET join(hi) == [val |-> BitOr(Shl16(hi.val, 8), lo.val), m |-> hi.m]
        IN join(memRead(lo.m, a1))
  IN high(memRead(m, addr))

\* Read16: [val, m]
Read16(m, addr, mode) ==
  LET a1 == U16(addr + 1)
      a2 == IF mode \in {"INDIRECT_X", "INDIRECT_Y"} THEN BitAnd(a1, 255) ELSE a1
      high(lo) ==
        LET join(hi) == [val |-> BitOr(Shl16(hi.val, 8), lo.val), m |-> hi.m]
        IN join(memRead(lo.m, a2))
  IN high(memRead(m, addr))

extraCycles(addr1, addr2) ==
  IF BitAnd(addr1, 65280) # BitAnd(addr2, 65280) THEN 1 ELSE 0

\* getOperandAddr: [addr, m]; the index modes add their page-cross cycle to
\* c.cycles here
getOperandAddr(m, mode) ==
  LET c == m.cpu
      b == memRead(m, c.pc)
      w == Read16(m, c.pc, mode)
      indexed(r, i) ==
        LET addr == U16(r.val + i)
        IN [addr |-> addr,
            m |-> [r.m EXCEPT !.cpu.cycles = @ + extraCycles(r.val, addr)]]
  IN CASE mode \in {"ACCUMULATOR", "IMPLICIT"} ->
            [addr |-> 0, m |-> Panic(m, "address mode should never use this method")]
       [] mode = "IMMEDIATE" -> [addr |-> c.pc, m |-> m]
       [] mode = "ZERO_PAGE" -> [addr |-> b.val, m |-> b.m]
       [] mode = "ZERO_PAGE_X" -> [addr |-> U8(b.val + c.x), m |-> b.m]
       [] mode \in {"ZERO_PAGE_Y", "ZERO_PAGE_X_BUT_Y"} ->
            [addr |-> U8(b.val + c.y), m |-> b.m]
       [] mode = "ABSOLUTE" -> [addr |-> w.val, m |-> w.m]
       [] mode = "ABSOLUTE_X" -> indexed(w, c.x)
       [] mode = "ABSOLUTE_Y" -> indexed(w, c.y)
       [] mode = "INDIRECT" ->
            LET r == Read16(w.m, w.val, mode) IN [addr |-> r.val, m |-> r.m]
       [] mode = "INDIRECT_X" ->
            LET r == Read16(b.m, U8(b.val + c.x), mode) IN [addr |-> r.val, m |-> r.m]
       [] mode = "INDIRECT_Y" -> indexed(Read16(b.m, b.val, mode), c.y)
       [] mode = "RELATIVE" ->
            [addr |-> U16(c.pc + 1 + Int8(b.val) + 65536), m |-> b.m]
       [] OTHER -> [addr |-> 0, m |-> Panic(m, "Invalid addressing mode")]

\* c.mem.Read(c.getOperandAddr(mode)): [val, addr, m]
Operand(m, mode) ==
  LET at(oa) ==
        IF oa.m.fault # "none" THEN [val |-> 0, addr |-> oa.addr, m |-> oa.m]
        ELSE LET got(r) == [val |-> r.val, addr |-> oa.addr, m |-> r.m]
             IN got(memRead(oa.m, oa.addr))
  IN at(getOperandAddr(m, mode))

TriggerIRQ(m) ==
  IF BitAnd(m.cpu.status, STATUS_FLAG_INTERRUPT_DISABLE) = 0
    THEN [m EXCEPT !.cpu.pendingInterrupt = INT_IRQ]
    ELSE m

\* a reset that leaves the cycle debt standing
CPUResetKeepsDebt(m) ==
  LET load(r) == [r.m EXCEPT !.cpu.pc = r.val]
  IN load(Read16(flagsOn(m, STATUS_FLAG_INTERRUPT_DISABLE + UNUSED_STATUS_FLAG),
                 INT_RESET, "ABSOLUTE"))

\* CPU.Reset
CPUReset(m) ==
  LET load(r) == [r.m EXCEPT !.cpu.pc = r.val, !.cpu.cycles = 0]
  IN load(Read16(flagsOn(m, STATUS_FLAG_INTERRUPT_DISABLE + UNUSED_STATUS_FLAG),
                 INT_RESET, "ABSOLUTE"))

StackAddr(m) == STACK_PAGE + m.cpu.sp

pushStack(m, val) ==
  [memWrite(m, StackAddr(m), val) EXCEPT !.cpu.sp = U8(@ + 255)]

\* a pop that reads the cell at S before it increments S
popStackReadFirst(m) ==
  LET bump(r) == [val |-> r.val, m |-> [r.m EXCEPT !.cpu.sp = U8(@ + 1)]]
  IN bump(memRead(m, StackAddr(m)))

\* popStack: [val, m]
popStack(m) ==
  LET m1 == [m EXCEPT !.cpu.sp = U8(@ + 1)]
  IN memRead(m1, StackAddr(m1))

pushAddress(m, addr) == pushStack(pushStack(m, Shr(addr, 8)), BitAnd(addr, 255))

\* popAddress: [val, m]
popAddress(m) ==
  LET high(lo) ==
        LET join(hi) == [val |-> BitOr(lo.val, Shl16(hi.val, 8)), m |-> hi.m]
        IN join(popStack(lo.m))
  IN high(popStack(m))

branch(m, mask, predicate) ==
  LET taken(oa) ==
        [oa.m EXCEPT !.cpu.cycles = @ + extraCycles(oa.addr, U16(m.cpu.pc + 65535)) + 1,
                     !.cpu.pc = oa.addr]
  IN IF (BitAnd(m.cpu.status, mask) > 0) = predicate
       THEN taken(getOperandAddr(m, "RELATIVE"))
       ELSE m

encodeBCD(val) == U8(Shl8(val \div 10, 4) + (val % 10))

decodeBCD(val) == U8(U8(Shr(val, 4) * 10) + BitAnd(val, 15))

addBCD(m, val) ==
  LET res == decodeBCD(m.cpu.acc) + decodeBCD(val)
               + BitAnd(m.cpu.status, STATUS_FLAG_CARRY)
      m1 == flagsOff(m, STATUS_FLAG_CARRY)
      m2 == IF res > 99 THEN flagsOn(m1, STATUS_FLAG_CARRY) ELSE m1
      a == encodeBCD(U8(IF res > 99 THEN res - 100 ELSE res))
  IN setNegativeAndZeroFlags([m2 EXCEPT !.cpu.acc = a], a)

\* an addition that leaves the carry flag out of the sum
addWithOverflowNoCarryIn(m, b) ==
  LET acc == m.cpu.acc
      res16 == acc + b
      res == U8(res16)
      mask == (IF BitAnd(res16, 256) # 0 THEN STATUS_FLAG_CARRY ELSE 0)
              + (IF BitAnd(BitAnd(BitXor(acc, res), BitXor(b, res)), 128) # 0
                   THEN STATUS_FLAG_OVERFLOW ELSE 0)
      m1 == flagsOff(m, STATUS_FLAG_CARRY + STATUS_FLAG_OVERFLOW
                        + STATUS_FLAG_NEGATIVE + STATUS_FLAG_ZERO)
      m2 == flagsOn(m1, mask)
  IN setNegativeAndZeroFlags([m2 EXCEPT !.cpu.acc = res], res)

addWithOverflow(m, b) ==
  LET acc == m.cpu.acc
      res16 == acc + b + BitAnd(m.cpu.status, STATUS_FLAG_CARRY)
      res == U8(res16)
      mask == (IF BitAnd(res16, 256) # 0 THEN STATUS_FLAG_CARRY ELSE 0)
              + (IF BitAnd(BitAnd(BitXor(acc, res), BitXor(b, res)), 128) # 0
                   THEN STATUS_FLAG_OVERFLOW ELSE 0)
      m1 == flagsOff(m, STATUS_FLAG_CARRY + STATUS_FLAG_OVERFLOW
                        + STATUS_FLAG_NEGATIVE + STATUS_FLAG_ZERO)
      m2 == flagsOn(m1, mask)
  IN setNegativeAndZeroFlags([m2 EXCEPT !.cpu.acc = res], res)

subBCD(m, val) ==
  LET r0 == decodeBCD(m.cpu.acc) - decodeBCD(val)
      r1 == IF BitAnd(m.cpu.status, STATUS_FLAG_CARRY) = 0 THEN r0 - 1 ELSE r0
      m1 == flagsOn(m, STATUS_FLAG_CARRY)
      m2 == IF r1 < 0 THEN flagsOff(m1, STATUS_FLAG_CARRY) ELSE m1
      r2 == IF r1 < 0 THEN 100 + r1 ELSE r1
      a == encodeBCD(U8(r2 + 256))
  IN setNegativeAndZeroFlags([m2 EXCEPT !.cpu.acc = a], a)

baseCMP(m, a, b) ==
  LET m1 == flagsOff(m, STATUS_FLAG_ZERO + STATUS_FLAG_NEGATIVE + STATUS_FLAG_CARRY)
      m2 == setNegativeAndZeroFlags(m1, U8(a - b + 256))
  IN IF a >= b THEN flagsOn(m2, STATUS_FLAG_CARRY) ELSE m2

useDecimalMode(m) == BitAnd(m.cpu.status, STATUS_FLAG_DECIMAL) # 0

(***************************************************************************)
(* mos6502: the opcode table (var opcodes), keyed by the opcode byte.      *)
(***************************************************************************)
Op(n, mo, by, cy) == [name |-> n, mode |-> mo, bytes |-> by, cycles |-> cy]

opcodes ==
  105 :> Op("ADC", "IMMEDIATE", 2, 2) @@
  101 :> Op("ADC", "ZERO_PAGE", 2, 3) @@
  117 :> Op("ADC", "ZERO_PAGE_X", 2, 4) @@
  109 :> Op("ADC", "ABSOLUTE", 3, 4) @@
  125 :> Op("ADC", "ABSOLUTE_X", 3, 4) @@
  121 :> Op("ADC", "ABSOLUTE_Y", 3, 4) @@
  97 :> Op("ADC", "INDIRECT_X", 2, 6) @@
  113 :> Op("ADC", "INDIRECT_Y", 2, 5) @@
  41 :> Op("AND", "IMMEDIATE", 2, 2) @@
  37 :> Op("AND", "ZERO_PAGE", 2, 3) @@
  53 :> Op("AND", "ZERO_PAGE_X", 2, 4) @@
  45 :> Op("AND", "ABSOLUTE", 3, 4) @@
  61 :> Op("AND", "ABSOLUTE_X", 3, 4) @@
  57 :> Op("AND", "ABSOLUTE_Y", 3, 4) @@
  33 :> Op("AND", "INDIRECT_X", 2, 6) @@
  49 :> Op("AND", "INDIRECT_Y", 2, 5) @@
  10 :> Op("ASL", "ACCUMULATOR", 1, 2) @@
  6 :> Op("ASL", "ZERO_PAGE", 2, 5) @@
  22 :> Op("ASL", "ZERO_PAGE_X", 2, 6) @@
  14 :> Op("ASL", "ABSOLUTE", 3, 6) @@
  30 :> Op("ASL", "ABSOLUTE_X", 3, 7) @@
  144 :> Op("BCC", "RELATIVE", 2, 2) @@
  176 :> Op("BCS", "RELATIVE", 2, 2) @@
  240 :> Op("BEQ", "RELATIVE", 2, 2) @@
  36 :> Op("BIT", "ZERO_PAGE", 2, 3) @@
  44 :> Op("BIT", "ABSOLUTE", 3, 4) @@
  48 :> Op("BMI", "RELATIVE", 2, 2) @@
  208 :> Op("BNE", "RELATIVE", 2, 2) @@
  16 :> Op("BPL", "RELATIVE", 2, 2) @@
  0 :> Op("BRK", "IMPLICIT", 2, 7) @@
  80 :> Op("BVC", "RELATIVE", 2, 2) @@
  112 :> Op("BVS", "RELATIVE", 2, 2) @@
  24 :> Op("CLC", "IMPLICIT", 1, 2) @@
  216 :> Op("CLD", "IMPLICIT", 1, 2) @@
  88 :> Op("CLI", "IMPLICIT", 1, 2) @@
  184 :> Op("CLV", "IMPLICIT", 1, 2) @@
  201 :> Op("CMP", "IMMEDIATE", 2, 2) @@
  197 :> Op("CMP", "ZERO_PAGE", 2, 3) @@
  213 :> Op("CMP", "ZERO_PAGE_X", 2, 4) @@
  205 :> Op("CMP", "ABSOLUTE", 3, 4) @@
  221 :> Op("CMP", "ABSOLUTE_X", 3, 4) @@
  217 :> Op("CMP", "ABSOLUTE_Y", 3, 4) @@
  193 :> Op("CMP", "INDIRECT_X", 2, 6) @@
  209 :> Op("CMP", "INDIRECT_Y", 2, 5) @@
  224 :> Op("CPX", "IMMEDIATE", 2, 2) @@
  228 :> Op("CPX", "ZERO_PAGE", 2, 3) @@
  236 :> Op("CPX", "ABSOLUTE", 3, 4) @@
  192 :> Op("CPY", "IMMEDIATE", 2, 2) @@
  196 :> Op("CPY", "ZERO_PAGE", 2, 3) @@
  204 :> Op("CPY", "ABSOLUTE", 3, 4) @@
  198 :> Op("DEC", "ZERO_PAGE", 2, 5) @@
  214 :> Op("DEC", "ZERO_PAGE_X", 2, 6) @@
  206 :> Op("DEC", "ABSOLUTE", 3, 6) @@
  222 :> Op("DEC", "ABSOLUTE_X", 3, 7) @@
  202 :> Op("DEX", "IMPLICIT", 1, 2) @@
  136 :> Op("DEY", "IMPLICIT", 1, 2) @@
  73 :> Op("EOR", "IMMEDIATE", 2, 2) @@
  69 :> Op("EOR", "ZERO_PAGE", 2, 3) @@
  85 :> Op("EOR", "ZERO_PAGE_X", 2, 4) @@
  77 :> Op("EOR", "ABSOLUTE", 3, 4) @@
  93 :> Op("EOR", "ABSOLUTE_X", 3, 4) @@
  89 :> Op("EOR", "ABSOLUTE_Y", 3, 4) @@
  65 :> Op("EOR", "INDIRECT_X", 2, 6) @@
  81 :> Op("EOR", "INDIRECT_Y", 2, 5) @@
  230 :> Op("INC", "ZERO_PAGE", 2, 5) @@
  246 :> Op("INC", "ZERO_PAGE_X", 2, 6) @@
  238 :> Op("INC", "ABSOLUTE", 3, 6) @@
  254 :> Op("INC", "ABSOLUTE_X", 3, 7) @@
  232 :> Op("INX", "IMPLICIT", 1, 2) @@
  200 :> Op("INY", "IMPLICIT", 1, 2) @@
  76 :> Op("JMP", "ABSOLUTE", 3, 3) @@
  108 :> Op("JMP", "INDIRECT", 3, 5) @@
  32 :> Op("JSR", "ABSOLUTE", 3, 6) @@
  169 :> Op("LDA", "IMMEDIATE", 2, 2) @@
  165 :> Op("LDA", "ZERO_PAGE", 2, 3) @@
  181 :> Op("LDA", "ZERO_PAGE_X", 2, 4) @@
  173 :> Op("LDA", "ABSOLUTE", 3, 4) @@
  189 :> Op("LDA", "ABSOLUTE_X", 3, 4) @@
  185 :> Op("LDA", "ABSOLUTE_Y", 3, 4) @@
  161 :> Op("LDA", "INDIRECT_X", 2, 6) @@
  177 :> Op("LDA", "INDIRECT_Y", 2, 5) @@
  162 :> Op("LDX", "IMMEDIATE", 2, 2) @@
  166 :> Op("LDX", "ZERO_PAGE", 2, 3) @@
  182 :> Op("LDX", "ZERO_PAGE_Y", 2, 4) @@
  174 :> Op("LDX", "ABSOLUTE", 3, 4) @@
  190 :> Op("LDX", "ABSOLUTE_Y", 3, 4) @@
  160 :> Op("LDY", "IMMEDIATE", 2, 2) @@
  164 :> Op("LDY", "ZERO_PAGE", 2, 3) @@
  180 :> Op("LDY", "ZERO_PAGE_X", 2, 4) @@
  172 :> Op("LDY", "ABSOLUTE", 3, 4) @@
  188 :> Op("LDY", "ABSOLUTE_X", 3, 4) @@
  74 :> Op("LSR", "ACCUMULATOR", 1, 2) @@
  70 :> Op("LSR", "ZERO_PAGE", 2, 5) @@
  86 :> Op("LSR", "ZERO_PAGE_X", 2, 6) @@
  78 :> Op("LSR", "ABSOLUTE", 3, 6) @@
  94 :> Op("LSR", "ABSOLUTE_X", 3, 7) @@
  4 :> Op("NOP", "ZERO_PAGE", 2, 2) @@
  68 :> Op("NOP", "ZERO_PAGE", 2, 2) @@
  100 :> Op("NOP", "ZERO_PAGE", 2, 2) @@
  12 :> Op("NOP", "ABSOLUTE", 2, 2) @@
  20 :> Op("NOP", "ZERO_PAGE_X", 2, 2) @@
  52 :> Op("NOP", "ZERO_PAGE_X", 2, 2) @@
  84 :> Op("NOP", "ZERO_PAGE_X", 2, 2) @@
  116 :> Op("NOP", "ZERO_PAGE_X", 2, 2) @@
  212 :> Op("NOP", "ZERO_PAGE_X", 2, 2) @@
  244 :> Op("NOP", "ZERO_PAGE_X", 2, 2) @@
  234 :> Op("NOP", "IMPLICIT", 1, 2) @@
  26 :> Op("NOP", "IMPLICIT", 2, 2) @@
  58 :> Op("NOP", "IMPLICIT", 2, 2) @@
  90 :> Op("NOP", "IMPLICIT", 2, 2) @@
  218 :> Op("NOP", "IMPLICIT", 2, 2) @@
  128 :> Op("NOP", "IMPLICIT", 2, 2) @@
  28 :> Op("NOP", "ABSOLUTE_X", 2, 2) @@
  60 :> Op("NOP", "ABSOLUTE_X", 2, 2) @@
  92 :> Op("NOP", "ABSOLUTE_X", 2, 2) @@
  124 :> Op("NOP", "ABSOLUTE_X", 2, 2) @@
  220 :> Op("NOP", "ABSOLUTE_X", 2, 2) @@
  252 :> Op("NOP", "ABSOLUTE_X", 2, 2) @@
  9 :> Op("ORA", "IMMEDIATE", 2, 2) @@
  5 :> Op("ORA", "ZERO_PAGE", 2, 3) @@
  21 :> Op("ORA", "ZERO_PAGE_X", 2, 4) @@
  13 :> Op("ORA", "ABSOLUTE", 3, 4) @@
  29 :> Op("ORA", "ABSOLUTE_X", 3, 4) @@
  25 :> Op("ORA", "ABSOLUTE_Y", 3, 4) @@
  1 :> Op("ORA", "INDIRECT_X", 2, 6) @@
  17 :> Op("ORA", "INDIRECT_Y", 2, 5) @@
  72 :> Op("PHA", "IMPLICIT", 1, 3) @@
  8 :> Op("PHP", "IMPLICIT", 1, 3) @@
  104 :> Op("PLA", "IMPLICIT", 1, 4) @@
  40 :> Op("PLP", "IMPLICIT", 1, 4) @@
  42 :> Op("ROL", "ACCUMULATOR", 1, 2) @@
  38 :> Op("ROL", "ZERO_PAGE", 2, 5) @@
  54 :> Op("ROL", "ZERO_PAGE_X", 2, 6) @@
  46 :> Op("ROL", "ABSOLUTE", 3, 6) @@
  62 :> Op("ROL", "ABSOLUTE_X", 3, 7) @@
  106 :> Op("ROR", "ACCUMULATOR", 1, 2) @@
  102 :> Op("ROR", "ZERO_PAGE", 2, 5) @@
  118 :> Op("ROR", "ZERO_PAGE_X", 2, 6) @@
  110 :> Op("ROR", "ABSOLUTE", 3, 6) @@
  126 :> Op("ROR", "ABSOLUTE_X", 3, 7) @@
  64 :> Op("RTI", "IMPLICIT", 1, 6) @@
  96 :> Op("RTS", "IMPLICIT", 1, 6) @@
  233 :> Op("SBC", "IMMEDIATE", 2, 2) @@
  235 :> Op("SBC", "IMMEDIATE", 2, 2) @@
  229 :> Op("SBC", "ZERO_PAGE", 2, 3) @@
  245 :> Op("SBC", "ZERO_PAGE_X", 2, 4) @@
  237 :> Op("SBC", "ABSOLUTE", 3, 4) @@
  253 :> Op("SBC", "ABSOLUTE_X", 3, 4) @@
  249 :> Op("SBC", "ABSOLUTE_Y", 3, 4) @@
  225 :> Op("SBC", "INDIRECT_X", 2, 6) @@
  241 :> Op("SBC", "INDIRECT_Y", 2, 5) @@
  56 :> Op("SEC", "IMPLICIT", 1, 2) @@
  248 :> Op("SED", "IMPLICIT", 1, 2) @@
  120 :> Op("SEI", "IMPLICIT", 1, 2) @@
  133 :> Op("STA", "ZERO_PAGE", 2, 3) @@
  149 :> Op("STA", "ZERO_PAGE_X", 2, 4) @@
  141 :> Op("STA", "ABSOLUTE", 3, 4) @@
  157 :> Op("STA", "ABSOLUTE_X", 3, 5) @@
  153 :> Op("STA", "ABSOLUTE_Y", 3, 5) @@
  129 :> Op("STA", "INDIRECT_X", 2, 6) @@
  145 :> Op("STA", "INDIRECT_Y", 2, 6) @@
  134 :> Op("STX", "ZERO_PAGE", 2, 3) @@
  150 :> Op("STX", "ZERO_PAGE_Y", 2, 4) @@
  142 :> Op("STX", "ABSOLUTE", 3, 4) @@
  132 :> Op("STY", "ZERO_PAGE", 2, 3) @@
  148 :> Op("STY", "ZERO_PAGE_X", 2, 4) @@
  140 :> Op("STY", "ABSOLUTE", 3, 4) @@
  170 :> Op("TAX", "IMPLICIT", 1, 2) @@
  168 :> Op("TAY", "IMPLICIT", 1, 2) @@
  186 :> Op("TSX", "IMPLICIT", 1, 2) @@
  138 :> Op("TXA", "IMPLICIT", 1, 2) @@
  154 :> Op("TXS", "IMPLICIT", 1, 2) @@
  152 :> Op("TYA", "IMPLICIT", 1, 2) @@
  163 :> Op("LAX", "INDIRECT_X", 2, 6) @@
  179 :> Op("LAX", "INDIRECT_Y", 2, 5) @@
  191 :> Op("LAX", "ABSOLUTE_Y", 3, 4) @@
  175 :> Op("LAX", "ABSOLUTE", 3, 4) @@
  183 :> Op("LAX", "ZERO_PAGE_Y", 2, 4) @@
  167 :> Op("LAX", "ZERO_PAGE_Y", 2, 3) @@
  131 :> Op("SAX", "IMMEDIATE", 2, 2) @@
  135 :> Op("SAX", "ZERO_PAGE", 2, 3) @@
  143 :> Op("SAX", "ABSOLUTE", 2, 4) @@
  151 :> Op("SAX", "ZERO_PAGE_X_BUT_Y", 2, 4) @@
  207 :> Op("DCM", "ABSOLUTE", 3, 6) @@
  223 :> Op("DCM", "ABSOLUTE_X", 3, 7) @@
  219 :> Op("DCM", "ABSOLUTE_Y", 3, 7) @@
  199 :> Op("DCM", "ZERO_PAGE", 2, 5) @@
  215 :> Op("DCM", "ZERO_PAGE_X", 2, 6) @@
  195 :> Op("DCM", "INDIRECT_X", 2, 8) @@
  211 :> Op("DCM", "INDIRECT_Y", 2, 8) @@
  239 :> Op("ISB", "ABSOLUTE", 3, 6) @@
  255 :> Op("ISB", "ABSOLUTE_X", 3, 7) @@
  251 :> Op("ISB", "ABSOLUTE_Y", 3, 7) @@
  231 :> Op("ISB", "ZERO_PAGE", 2, 5) @@
  247 :> Op("ISB", "ZERO_PAGE_X", 2, 6) @@
  227 :> Op("ISB", "INDIRECT_X", 2, 8) @@
  243 :> Op("ISB", "INDIRECT_Y", 2, 8)

(***************************************************************************)
(* mos6502: the instructions.  Step finds the method by op.name; the       *)
(* method bodies are the cases below.                                      *)
(***************************************************************************)
\* ASL, LSR, ROL, ROR: nv is the new value computed from the old value ov,
\* carryBit the bit of ov that becomes C
shiftFlags(m, ov, nv, carryBit) ==
  LET carry(m3) == IF BitAnd(ov, carryBit) # 0 THEN flagsOn(m3, STATUS_FLAG_CARRY) ELSE m3
  IN carry(setNegativeAndZeroFlags(
             flagsOff(m, STATUS_FLAG_CARRY + STATUS_FLAG_NEGATIVE + STATUS_FLAG_ZERO), nv))

\* the value ASL, LSR, ROL or ROR computes from ov; carry is the C bit (0 or 1)
shifted(name, ov, carry) ==
  CASE name = "ASL" -> Shl8(ov, 1)
    [] name = "LSR" -> Shr(ov, 1)
    [] name = "ROL" -> BitOr(Shl8(ov, 1), carry)
    [] name = "ROR" -> BitOr(Shr(ov, 1), Shl8(carry, 7))

shiftOp(m, mode, name, carryBit) ==
  LET nv(ov) == shifted(name, ov, BitAnd(m.cpu.status, STATUS_FLAG_CARRY))
  IN IF mode = "ACCUMULATOR"
       THEN shiftFlags([m EXCEPT !.cpu.acc = nv(m.cpu.acc)], m.cpu.acc, nv(m.cpu.acc), carryBit)
       ELSE (LET on(o) == IF o.m.fault # "none" THEN o.m ELSE
                   shiftFlags(memWrite(o.m, o.addr, nv(o.val)), o.val, nv(o.val), carryBit)
             IN on(Operand(m, mode)))

\* ROL and ROR on memory read the written byte back for the flags
rotateMem(m, mode, name, carryBit) ==
  LET nv(ov) == shifted(name, ov, BitAnd(m.cpu.status, STATUS_FLAG_CARRY))
  IN (LET on(o) == IF o.m.fault # "none" THEN o.m ELSE
            LET flags(r) == shiftFlags(r.m, o.val, r.val, carryBit)
                  IN flags(memRead(memWrite(o.m, o.addr, nv(o.val)), o.addr))
      IN on(Operand(m, mode)))

\* LDA, LDX, LDY, AND, EOR, ORA, PLA and the transfers: store n in register
\* reg and set N and Z from it
loadReg(m, reg, n) ==
  setNegativeAndZeroFlags(
    CASE reg = "acc" -> [m EXCEPT !.cpu.acc = n]
      [] reg = "x" -> [m EXCEPT !.cpu.x = n]
      [] reg = "y" -> [m EXCEPT !.cpu.y = n], n)

\* INC and DEC: write Read(a)+d, then set N and Z from a second read of a
incDec(m, mode, d) ==
  (LET on(o) == IF o.m.fault # "none" THEN o.m ELSE
         LET flags(r) == setNegativeAndZeroFlags(r.m, r.val)
               IN flags(memRead(memWrite(o.m, o.addr, U8(o.val + d)), o.addr))
   IN on(Operand(m, mode)))

ADC(m, mode) ==
  (LET on(o) == IF o.m.fault # "none" THEN o.m ELSE
         IF useDecimalMode(o.m) THEN addBCD(o.m, o.val)
               ELSE addWithOverflow(o.m, o.val)
   IN on(Operand(m, mode)))

SBC(m, mode) ==
  (LET on(o) == IF o.m.fault # "none" THEN o.m ELSE
         IF useDecimalMode(o.m) THEN subBCD(o.m, o.val)
               ELSE addWithOverflow(o.m, 255 - o.val)
   IN on(Operand(m, mode)))

BIT(m, mode) ==
  (LET on(o) == IF o.m.fault # "none" THEN o.m ELSE
         flagsOn(flagsOff(o.m, STATUS_FLAG_NEGATIVE + STATUS_FLAG_OVERFLOW
                                     + STATUS_FLAG_ZERO),
                       (IF BitAnd(o.val, m.cpu.acc) = 0 THEN STATUS_FLAG_ZERO ELSE 0)
                       + BitAnd(o.val, STATUS_FLAG_NEGATIVE + STATUS_FLAG_OVERFLOW))
   IN on(Operand(m, mode)))

BRK(m, mode) ==
  LET m1 == pushAddress(m, U16(m.cpu.pc + 1))
      m2 == pushStack(m1, BitOr(m1.cpu.status, STATUS_FLAG_BREAK))
      r == Read16(m2, INT_BRK, "ABSOLUTE")
  IN flagsOn([r.m EXCEPT !.cpu.pc = r.val], STATUS_FLAG_INTERRUPT_DISABLE)

\* c.pc = the operand address: the end of JMP and JSR
jumpTo(oa) == [oa.m EXCEPT !.cpu.pc = oa.addr]

JSR(m, mode) == jumpTo(getOperandAddr(pushAddress(m, U16(m.cpu.pc + 1)), mode))

PHP(m, mode) == pushStack(m, BitOr(m.cpu.status, STATUS_FLAG_BREAK))

\* a PLP that keeps bit 4 of the pulled byte
PLPKeepsBreak(m, mode) ==
  LET r == popStack(m)
  IN flagsOn([r.m EXCEPT !.cpu.status = r.val], UNUSED_STATUS_FLAG)

PLP(m, mode) ==
  LET r == popStack(m)
  IN flagsOn([r.m EXCEPT !.cpu.status = BitAnd(r.val, 255 - STATUS_FLAG_BREAK)],
             UNUSED_STATUS_FLAG)

RTI(m, mode) ==
  LET r == popStack(m)
      a == popAddress([r.m EXCEPT !.cpu.status = r.val])
  IN [a.m EXCEPT !.cpu.pc = a.val]

\* an RTS that resumes at the popped address itself
RTSNoInc(m, mode) ==
  LET a == popAddress(m) IN [a.m EXCEPT !.cpu.pc = a.val]

RTS(m, mode) ==
  LET a == popAddress(m) IN [a.m EXCEPT !.cpu.pc = U16(a.val + 1)]

DCM(m, mode) ==
  (LET on(o) == IF o.m.fault # "none" THEN o.m ELSE
         baseCMP(memWrite(o.m, o.addr, U8(o.val + 255)), m.cpu.acc, U8(o.val + 255))
   IN on(Operand(m, mode)))

ISB(m, mode) ==
  (LET on(o) == IF o.m.fault # "none" THEN o.m ELSE
         SBC(memWrite(o.m, o.addr, U8(o.val + 1)), mode)
   IN on(Operand(m, mode)))

\* the store of reg at the operand address: STA, STX, STY
store(m, mode, val) ==
  LET st(oa) == IF oa.m.fault # "none" THEN oa.m ELSE memWrite(oa.m, oa.addr, val)
  IN st(getOperandAddr(m, mode))

\* v.MethodByName(op.name).Call(op.mode)
Exec(m, name, mode) ==
  LET c == m.cpu
      ld(reg) == (LET on(o) == IF o.m.fault # "none" THEN o.m ELSE
                        loadReg(o.m, reg, o.val)
                  IN on(Operand(m, mode)))
      cmp(a) == (LET on(o) == IF o.m.fault # "none" THEN o.m ELSE
                       baseCMP(o.m, a, o.val)
                 IN on(Operand(m, mode)))
  IN CASE name = "ADC" -> ADC(m, mode)
       [] name = "AND" ->
            (LET on(o) == IF o.m.fault # "none" THEN o.m ELSE
                   loadReg(o.m, "acc", BitAnd(c.acc, o.val))
             IN on(Operand(m, mode)))
       [] name = "ASL" -> shiftOp(m, mode, "ASL", 128)
       [] name = "BCC" -> branch(m, STATUS_FLAG_CARRY, FALSE)
       [] name = "BCS" -> branch(m, STATUS_FLAG_CARRY, TRUE)
       [] name = "BEQ" -> branch(m, STATUS_FLAG_ZERO, TRUE)
       [] name = "BIT" -> BIT(m, mode)
       [] name = "BMI" -> branch(m, STATUS_FLAG_NEGATIVE, TRUE)
       [] name = "BNE" -> branch(m, STATUS_FLAG_ZERO, FALSE)
       [] name = "BPL" -> branch(m, STATUS_FLAG_NEGATIVE, FALSE)
       [] name = "BRK" -> BRK(m, mode)
       [] name = "BVC" -> branch(m, STATUS_FLAG_OVERFLOW, FALSE)
       [] name = "BVS" -> branch(m, STATUS_FLAG_OVERFLOW, TRUE)
       [] name = "CLC" -> flagsOff(m, STATUS_FLAG_CARRY)
       [] name = "CLD" -> flagsOff(m, STATUS_FLAG_DECIMAL)
       [] name = "CLI" -> flagsOff(m, STATUS_FLAG_INTERRUPT_DISABLE)
       [] name = "CLV" -> flagsOff(m, STATUS_FLAG_OVERFLOW)
       [] name = "CMP" -> cmp(c.acc)
       [] name = "CPX" -> cmp(c.x)
       [] name = "CPY" -> cmp(c.y)
       [] name = "DEC" -> incDec(m, mode, 255)
       [] name = "DEX" -> loadReg(m, "x", U8(c.x + 255))
       [] name = "DEY" -> loadReg(m, "y", U8(c.y + 255))
       [] name = "EOR" ->
            (LET on(o) == IF o.m.fault # "none" THEN o.m ELSE
                   loadReg(o.m, "acc", BitXor(c.acc, o.val))
             IN on(Operand(m, mode)))
       [] name = "INC" -> incDec(m, mode, 1)
       [] name = "INX" -> loadReg(m, "x", U8(c.x + 1))
       [] name = "INY" -> loadReg(m, "y", U8(c.y + 1))
       [] name = "JMP" -> jumpTo(getOperandAddr(m, mode))
       [] name = "JSR" -> JSR(m, mode)
       [] name = "LDA" -> ld("acc")
       [] name = "LDX" -> ld("x")
       [] name = "LDY" -> ld("y")
       [] name = "LSR" -> shiftOp(m, mode, "LSR", 1)
       [] name = "NOP" -> m
       [] name = "ORA" ->
            (LET on(o) == IF o.m.fault # "none" THEN o.m ELSE
                   loadReg(o.m, "acc", BitOr(c.acc, o.val))
             IN on(Operand(m, mode)))
       [] name = "PHA" -> pushStack(m, c.acc)
       [] name = "PHP" -> PHP(m, mode)
       [] name = "PLA" -> LET pulled(r) == loadReg(r.m, "acc", r.val) IN pulled(popStack(m))
       [] name = "PLP" -> PLP(m, mode)
       [] name = "ROL" -> IF mode = "ACCUMULATOR" THEN shiftOp(m, mode, "ROL", 128)
                          ELSE rotateMem(m, mode, "ROL", 128)
       [] name = "ROR" -> IF mode = "ACCUMULATOR" THEN shiftOp(m, mode, "ROR", 1)
                          ELSE rotateMem(m, mode, "ROR", 1)
       [] name = "RTI" -> RTI(m, mode)
       [] name = "RTS" -> RTS(m, mode)
       [] name = "SBC" -> SBC(m, mode)
       [] name = "SEC" -> flagsOn(m, STATUS_FLAG_CARRY)
       [] name = "SED" -> flagsOn(m, STATUS_FLAG_DECIMAL)
       [] name = "SEI" -> flagsOn(m, STATUS_FLAG_INTERRUPT_DISABLE)
       [] name = "STA" -> store(m, mode, c.acc)
       [] name = "STX" -> store(m, mode, c.x)
       [] name = "STY" -> store(m, mode, c.y)
       [] name = "TAX" -> loadReg(m, "x", c.acc)
       [] name = "TAY" -> loadReg(m, "y", c.acc)
       [] name = "TSX" -> loadReg(m, "x", c.sp)
       [] name = "TXA" -> loadReg(m, "acc", c.x)
       [] name = "TXS" -> [m EXCEPT !.cpu.sp = c.x]
       [] name = "TYA" -> loadReg(m, "acc", c.y)
       [] name = "LAX" ->
            (LET on(o) == IF o.m.fault # "none" THEN o.m ELSE
                   [o.m EXCEPT !.cpu.acc = o.val, !.cpu.x = o.val]
             IN on(Operand(m, mode)))
       [] name = "SAX" ->
            (LET on(o) == IF o.m.fault # "none" THEN o.m ELSE
                   [o.m EXCEPT !.cpu.x = U8(BitAnd(c.acc, c.x) - o.val + 256)]
             IN on(Operand(m, mode)))
       [] name = "DCM" -> DCM(m, mode)
       [] name = "ISB" -> ISB(m, mode)
       [] OTHER -> Panic(m, "call of reflect.Value.Call on zero Value")

\* getInst: the opcode at PC, or the error invalidInstruction
getInst(m) ==
  LET r == memRead(m, m.cpu.pc)
  IN IF r.val \in DOMAIN opcodes
       THEN [op |-> opcodes[r.val], err |-> "nil", m |-> r.m]
       ELSE [op |-> Op("", "IMPLICIT", 0, 0), err |-> "invalid instruction", m |-> r.m]

\* an interrupt entry that pushes the status before the return address
serviceInterruptStatusFirst(m) ==
  LET m1 == pushStack(m, m.cpu.status)
      m2 == pushAddress(m1, m.cpu.pc)
      r == Read16(m2, m.cpu.pendingInterrupt, "ABSOLUTE")
      m3 == flagsOn([r.m EXCEPT !.cpu.pc = r.val], STATUS_FLAG_INTERRUPT_DISABLE)
  IN [m3 EXCEPT !.cpu.cycles = IF m.cpu.pendingInterrupt = INT_NMI THEN 7 ELSE 8,
                !.cpu.pendingInterrupt = INT_NONE]

\* the interrupt entry at the top of Step
serviceInterrupt(m) ==
  LET m1 == pushAddress(m, m.cpu.pc)
      m2 == pushStack(m1, m1.cpu.status)
      r == Read16(m2, m.cpu.pendingInterrupt, "ABSOLUTE")
      m3 == flagsOn([r.m EXCEPT !.cpu.pc = r.val], STATUS_FLAG_INTERRUPT_DISABLE)
      cy == CASE m.cpu.pendingInterrupt = INT_NMI -> 7
              [] m.cpu.pendingInterrupt = INT_IRQ -> 8
              [] OTHER -> m3.cpu.cycles
  IN [m3 EXCEPT !.cpu.cycles = cy, !.cpu.pendingInterrupt = INT_NONE]

\* CPU.Step: [ret, m]; ret is the int it returns
Step(m) ==
  LET done(m2, op, opc) ==
        IF m2.fault # "none" THEN [ret |-> 0, m |-> m2]
        ELSE IF m2.cpu.pc = opc
          THEN [ret |-> m2.cpu.cycles,
                m |-> [m2 EXCEPT !.cpu.pc = U16(@ + op.bytes - 1 + 65536)]]
        ELSE [ret |-> m2.cpu.cycles, m |-> m2]
      run(gi) ==
        IF gi.m.fault # "none" THEN [ret |-> 0, m |-> gi.m]
        ELSE IF gi.err # "nil" THEN [ret |-> 0, m |-> Panic(gi.m, gi.err)]
        ELSE done(Exec([gi.m EXCEPT !.cpu.cycles = @ + gi.op.cycles,
                                    !.cpu.pc = U16(@ + 1)],
                       gi.op.name, gi.op.mode),
                  gi.op, U16(gi.m.cpu.pc + 1))
      entered(m1) == [ret |-> m1.cpu.cycles, m |-> m1]
  IN IF m.cpu.pendingInterrupt # INT_NONE
       THEN entered(serviceInterrupt(m))
       ELSE run(getInst(m))

\* CPU.Tick
CPUTick(m) ==
  IF m.cpu.cycles > 0 THEN [m EXCEPT !.cpu.cycles = @ - 1] ELSE Call("Step", m, <<>>).m

\* mos6502.New: the power-on registers; PC is read from the reset vector
NewCPU(m) ==
  LET c0 == [acc |-> 0, x |-> 0, y |-> 0, sp |-> 253, pc |-> 0, cycles |-> 0,
             pendingInterrupt |-> INT_NONE,
             status |-> UNUSED_STATUS_FLAG + STATUS_FLAG_BREAK
                        + STATUS_FLAG_INTERRUPT_DISABLE]
      load(r) == [r.m EXCEPT !.cpu.pc = r.val]
  IN load(Read16([m EXCEPT !.cpu = c0], INT_RESET, "ABSOLUTE"))

Call(method, m, args) ==
  CASE method = "Read" -> BusRead(m, args[1])
    [] method = "Write" -> BusWrite(m, args[1], args[2])
    [] method = "Step" -> Step(m)
    [] method = "Tick" -> CPUTick(m)
    [] method = "Reset" -> CPUReset(m)
    [] method = "PPUTick" -> PPUTick(m)
    [] method = "New" -> NewCPU(m)

(***************************************************************************)
(* Construction.                                                           *)
(***************************************************************************)
\* a ROM as nesrom.New accepts it and mappers.Get hands it to mapper 0
NewCart(prgSize, chrSize, flags6, prg) ==
  [prgSize |-> prgSize, chrSize |-> chrSize, flags6 |-> flags6,
   prg |-> prg, chr |-> Empty, prgRAM |-> Empty, baseRAM |-> Empty]

\* console.New: the bus with its RAM, CPU and PPU
NewConsole(c) ==
  Call("New", [cpu |-> 0, ppu |-> NewPPU(MirroringMode(c)), ram |-> Empty, cart |-> c,
          fault |-> "none", busKind |-> "console"], <<>>)

\* the CPU over the flat memory of the mos6502 tests, holding image
NewTestCPU(image) ==
  Call("New", [cpu |-> 0, ppu |-> NewPPU(MIRROR_HORIZONTAL), ram |-> image,
          cart |-> NewCart(0, 0, 0, Empty), fault |-> "none", busKind |-> "mem"], <<>>)

\* the bytes of code placed from address at on, as a sparse memory
Bytes(at, code) == [a \in {at + i - 1 : i \in 1..Len(code)} |-> code[a - at + 1]]

\* the three vectors NMI, RESET, IRQ at 0xFFFA..0xFFFF (little endian)
Vectors(nmi, reset, irq) ==
  Bytes(65530, <<nmi % 256, nmi \div 256, reset % 256, reset \div 256,
                 irq % 256, irq \div 256>>)

\* the non-zero cells of a sparse memory, moved down by off
Image(f, off) ==
  LET nz == {a \in DOMAIN f : f[a] # 0}
  IN [i \in {a - off : a \in nz} |-> f[i + off]]

(***************************************************************************)
(* nesrom and mappers: a ROM file's header, nesrom.New and mappers.Get,    *)
(* and main, which loads the file, gets the mapper and builds the console. *)
(* A file is [hdr, body, prg, chr]: the bytes a first Read of 16 returns,  *)
(* the number of bytes after them, and the PRG and CHR images they hold.   *)
(***************************************************************************)
TRAINER_SIZE == 512

PC_INST_SIZE == 8192

PC_PROM_SIZE == 32

\* "NES\x1A"
NesConstant == <<78, 69, 83, 26>>

parseHeader(hbytes) ==
  [constant |-> SubSeq(hbytes, 1, 4), prgSize |-> hbytes[5], chrSize |-> hbytes[6],
   flags6 |-> hbytes[7], flags7 |-> hbytes[8], flags8 |-> hbytes[9],
   flags9 |-> hbytes[10], flags10 |-> hbytes[11], unused |-> SubSeq(hbytes, 12, 16)]

hasTrainer(h) == BitAnd(h.flags6, 4) = 4

hasPlayChoice(h) == BitAnd(h.flags7, 2) = 2

isINesFormat(h) == h.constant = NesConstant

isNES2Format(h) == isINesFormat(h) /\ BitAnd(h.flags7, 12) = 8

\* unused is hbytes[11:], and the loop runs over unused[1:]
ignoreHighNibble(h) ==
  (\E i \in 2..Len(h.unused) : h.unused[i] # 0) /\ ~isNES2Format(h)

\* Header.mapperNum, a uint8
mapperNum(h) ==
  LET mn == Shr(BitAnd(h.flags6, 240), 4)
  IN IF ignoreHighNibble(h) THEN mn ELSE BitOr(BitAnd(h.flags7, 240), mn)

\* ROM.MapperNum: the uint8 widened to uint16
MapperNum(r) == mapperNum(r.h)

\* nesrom.New: [err, rom]; each section is read in turn, and a read that
\* returns fewer bytes than asked for ends the load with an error
NewROM(file) ==
  IF Len(file.hdr) # 16 THEN [err |-> "couldn't read header", rom |-> <<>>]
  ELSE LET h == parseHeader(file.hdr)
           tr == IF hasTrainer(h) THEN TRAINER_SIZE ELSE 0
           pr == tr + PRG_BLOCK_SIZE * h.prgSize
           ch == pr + CHR_BLOCK_SIZE * h.chrSize
           pi == ch + PC_INST_SIZE
           pp == pi + PC_PROM_SIZE
           fail(what) == [err |-> what, rom |-> <<>>]
       IN IF file.body < tr THEN fail("error reading trainer data")
          ELSE IF file.body < pr THEN fail("error reading PRG ROM")
          ELSE IF file.body < ch THEN fail("error reading CHR ROM")
          ELSE IF hasPlayChoice(h) /\ file.body < pi
            THEN fail("error reading PlayChoice INSt ROM")
          ELSE IF hasPlayChoice(h) /\ file.body < pp
            THEN fail("error reading PlayChoice PROM")
          ELSE [err |-> "", rom |-> [h |-> h, prg |-> file.prg, chr |-> file.chr]]

\* the ids RegisterMapper was called with: mapper 0 (NROM)
allMappers == {0}

\* mappers.Get: [err, mapper]; m.Init(rom) keeps the ROM, whatever it holds
Get(rom) ==
  IF MapperNum(rom) \notin allMappers
    THEN [err |-> "uknown mapper id", mapper |-> <<>>]
    ELSE [err |-> "",
          mapper |-> [NewCart(rom.h.prgSize, rom.h.chrSize, rom.h.flags6, rom.prg)
                        EXCEPT !.chr = rom.chr]]

\* the machine m as the value of the state variables
IsMach(m) ==
  /\ cpu = m.cpu
  /\ ppu = m.ppu
  /\ ram = m.ram
  /\ cart = m.cart
  /\ fault = m.fault
  /\ busKind = m.busKind

SetMach(m) ==
  /\ cpu' = m.cpu
  /\ ppu' = m.ppu
  /\ ram' = m.ram
  /\ cart' = m.cart
  /\ fault' = m.fault
  /\ busKind' = m.busKind

\* the record of what the last operation was, for stating properties of it
NoHist ==
  [op |-> "init", arg |-> <<>>, ret |-> 0, n |-> 0, pre |-> <<>>,
   ppuTicks |-> 0, cpuTicks |-> 0, afterCancel |-> 0, limit |-> -1,
   sinceExec |-> -1, charged |-> 0, gap |-> -1, due |-> -1,
   resets |-> 0, markOp |-> "", markAt |-> -1, markSp |-> -1, markP |-> -1,
   markN |-> -1, sinceWrap |-> -1, frameLen |-> -1,
   prev |-> [op |-> "init", arg |-> <<>>, ret |-> 0, pre |-> <<>>]]

(***************************************************************************)
(* The CPU driven through its public methods over the flat test memory.    *)
(***************************************************************************)
\* the number of CPU method calls explored
MaxCPUOps == 5

\* the cycle debt above which no further DMA charge is explored
MaxDebt == 513

\* NOP; LDA #$80; STA $0200; JMP $0400, with RTI as the NMI handler
ProgLoop ==
  Bytes(1024, <<234, 169, 128, 141, 0, 2, 76, 0, 4>>)
    @@ Bytes(1280, <<64>>) @@ Bytes(1296, <<230, 16, 64>>)
    @@ Vectors(1280, 1024, 1296)

\* CLI; NOP; then the byte 0x02, which is no opcode of the table
ProgBad ==
  Bytes(1024, <<88, 234, 2>>) @@ Bytes(1280, <<64>>) @@ Bytes(1296, <<230, 16, 64>>)
    @@ Vectors(1280, 1024, 1296)

\* LDX #$01; TXS; CLI; NOP; JMP $0404: the stack pointer about to wrap
ProgStack ==
  Bytes(1024, <<162, 1, 154, 88, 234, 76, 4, 4>>)
    @@ Bytes(1280, <<64>>) @@ Bytes(1296, <<230, 16, 64>>)
    @@ Vectors(1280, 1024, 1296)

CPUPrograms == {ProgLoop, ProgBad, ProgStack}

InitCPU ==
  /\ \E image \in CPUPrograms : IsMach(NewTestCPU(image))
  /\ ticks = 0
  /\ runPos = "idle"
  /\ cancelled = FALSE
  /\ hist = NoHist

CPUGuard == fault = "none" /\ busKind = "mem" /\ hist.n < MaxCPUOps

\* a call of CPU.Step from outside Tick (the BIOS single step, the tests)
CPUStepOp ==
  /\ CPUGuard
  /\ LET done(r) ==
           /\ SetMach(r.m)
           /\ hist' = [hist EXCEPT !.op = "Step", !.ret = r.ret, !.n = @ + 1,
                                   !.pre = Mach, !.sinceExec = -1, !.charged = 0,
                                   !.gap = -1, !.due = -1]
     IN done(Call("Step", Mach, <<>>))
  /\ UNCHANGED <<ticks, runPos, cancelled>>

\* a call of CPU.Tick
CPUTickOp ==
  /\ CPUGuard
  /\ LET exec == cpu.cycles = 0
         done(m) ==
           /\ SetMach(m)
           /\ hist' = [hist EXCEPT
                !.op = "Tick", !.ret = 0, !.n = @ + 1, !.pre = Mach,
                !.gap = IF exec /\ hist.sinceExec >= 0 THEN hist.sinceExec + 1 ELSE -1,
                !.due = IF exec /\ hist.sinceExec >= 0 THEN hist.charged ELSE -1,
                !.sinceExec = IF exec THEN 0
                              ELSE IF hist.sinceExec >= 0 THEN hist.sinceExec + 1 ELSE -1,
                !.charged = IF exec THEN m.cpu.cycles ELSE hist.charged]
     IN done(Call("Tick", Mach, <<>>))
  /\ UNCHANGED <<ticks, runPos, cancelled>>

CPUTriggerNMIOp ==
  /\ CPUGuard
  /\ SetMach(CPUTriggerNMI(Mach))
  /\ hist' = [hist EXCEPT !.op = "TriggerNMI", !.ret = 0, !.n = @ + 1, !.pre = Mach,
                          !.gap = -1, !.due = -1]
  /\ UNCHANGED <<ticks, runPos, cancelled>>

CPUTriggerIRQOp ==
  /\ CPUGuard
  /\ SetMach(TriggerIRQ(Mach))
  /\ hist' = [hist EXCEPT !.op = "TriggerIRQ", !.ret = 0, !.n = @ + 1, !.pre = Mach,
                          !.gap = -1, !.due = -1]
  /\ UNCHANGED <<ticks, runPos, cancelled>>

CPUAddDMACyclesOp ==
  /\ CPUGuard
  /\ cpu.cycles < MaxDebt
  /\ SetMach(AddDMACycles(Mach))
  /\ hist' = [hist EXCEPT !.op = "AddDMACycles", !.ret = 0, !.n = @ + 1, !.pre = Mach,
                          !.gap = -1, !.due = -1,
                          !.charged = IF hist.sinceExec >= 0 THEN @ + DMA_CYCLES ELSE @]
  /\ UNCHANGED <<ticks, runPos, cancelled>>

CPUResetOp ==
  /\ CPUGuard
  /\ SetMach(Call("Reset", Mach, <<>>))
  /\ hist' = [hist EXCEPT !.op = "Reset", !.ret = 0, !.n = @ + 1, !.pre = Mach,
                          !.sinceExec = -1, !.charged = 0, !.gap = -1, !.due = -1]
  /\ UNCHANGED <<ticks, runPos, cancelled>>

NextCPU ==
  \/ CPUStepOp
  \/ CPUTickOp
  \/ CPUTriggerNMIOp
  \/ CPUTriggerIRQOp
  \/ CPUAddDMACyclesOp
  \/ CPUResetOp

SpecCPU == InitCPU /\ [][NextCPU]_vars

(***************************************************************************)
(* Properties of the CPU methods.                                          *)
(***************************************************************************)
\* the memory cells on which two sparse memories differ
Changed(f, g) == {a \in DOMAIN f \cup DOMAIN g : Rd(f, a) # Rd(g, a)}

\* the last call was Step, entered with an interrupt pending
InterruptEntry ==
  /\ hist.op = "Step"
  /\ hist.pre.cpu.pendingInterrupt \in {INT_NMI, INT_IRQ}

\* C3: Step entered with a pending NMI or IRQ pushes PC high, PC low, then P,
\* sets I, loads PC from the vector (0xFFFA NMI, 0xFFFE IRQ), leaves 7 (NMI) or
\* 8 (IRQ) cycles charged and returned, clears the pending interrupt and
\* executes no opcode (A, X, Y and all other memory are as before).
C3_InterruptEntry ==
  InterruptEntry =>
    LET p == hist.pre.cpu
        vec == p.pendingInterrupt
        n == IF vec = INT_NMI THEN 7 ELSE 8
        a1 == STACK_PAGE + p.sp
        a2 == STACK_PAGE + U8(p.sp + 255)
        a3 == STACK_PAGE + U8(p.sp + 254)
    IN /\ fault = "none"
       /\ vec = INT_NMI => vec = 65530
       /\ vec = INT_IRQ => vec = 65534
       /\ Rd(ram, a1) = p.pc \div 256
       /\ Rd(ram, a2) = p.pc % 256
       /\ Rd(ram, a3) = p.status
       /\ Changed(ram, hist.pre.ram) \subseteq {a1, a2, a3}
       /\ cpu.sp = U8(p.sp + 253)
       /\ cpu.status = BitOr(p.status, STATUS_FLAG_INTERRUPT_DISABLE)
       /\ cpu.pc = Rd(ram, vec) + 256 * Rd(ram, vec + 1)
       /\ cpu.cycles = n
       /\ hist.ret = n
       /\ cpu.pendingInterrupt = INT_NONE
       /\ cpu.acc = p.acc /\ cpu.x = p.x /\ cpu.y = p.y

\* an IRQ was serviced with the I flag clear before, the pushes wrapping in the stack page
C3_Witness ==
  /\ InterruptEntry
  /\ hist.pre.cpu.pendingInterrupt = INT_IRQ
  /\ hist.pre.cpu.sp = 1
  /\ cpu.sp = 254
  /\ cpu.pc = 1296

\* C5: driven by Tick, an instruction charged N cycles occupies exactly N
\* ticks: the tick that executes the next instruction is the N-th tick after
\* the tick that executed it (gap = due whenever an executing tick follows one).
C5_OccupiesChargedTicks == hist.gap # -1 => hist.gap = hist.due

\* CLI, charged 2 cycles, is followed by the next instruction 3 ticks later
C5_Witness ==
  /\ hist.op = "Tick" /\ fault = "none"
  /\ hist.due = 2 /\ hist.gap = 3

\* C6: Step returns the cycles of the one instruction (or interrupt entry)
\* it executed, whatever debt was left over before the call.
C6_StepReturnsOwnCycles ==
  (hist.op = "Step" /\ fault = "none") =>
    hist.ret = IF hist.pre.cpu.pendingInterrupt = INT_NMI THEN 7
               ELSE IF hist.pre.cpu.pendingInterrupt = INT_IRQ THEN 8
               ELSE cpu.cycles - hist.pre.cpu.cycles

\* a Step on an instruction, entered with debt outstanding, returns the sum
C6_Witness ==
  /\ hist.op = "Step" /\ fault = "none"
  /\ hist.pre.cpu.pendingInterrupt = INT_NONE
  /\ hist.pre.cpu.cycles > 0
  /\ hist.ret = cpu.cycles
  /\ hist.ret > cpu.cycles - hist.pre.cpu.cycles

\* the last call came to execute the byte at PC, and that byte is no opcode
InvalidFetch ==
  /\ hist.op \in {"Step", "Tick"}
  /\ hist.op = "Tick" => hist.pre.cpu.cycles = 0
  /\ hist.pre.cpu.pendingInterrupt = INT_NONE
  /\ Rd(hist.pre.ram, hist.pre.cpu.pc) \notin DOMAIN opcodes

\* C7: a step on a byte that is no opcode does not abort the emulator, and
\* leaves PC, registers, flags, stack and cycle debt unchanged.
C7_InvalidOpcodeRecoverable ==
  InvalidFetch => (fault = "none" /\ cpu = hist.pre.cpu /\ ram = hist.pre.ram)

\* the step on the byte 0x02 ends in the panic, the CPU as it was
C7_Witness ==
  /\ InvalidFetch
  /\ fault = "invalid instruction"
  /\ cpu = hist.pre.cpu /\ ram = hist.pre.ram

\* C10: after Reset the I and U flags are set, PC is memory[0xFFFC] |
\* memory[0xFFFD] << 8, the cycle debt is 0, and S and the stack page are as
\* they were before the call.
C10_Reset ==
  hist.op = "Reset" =>
    /\ fault = "none"
    /\ BitAnd(cpu.status, STATUS_FLAG_INTERRUPT_DISABLE) # 0
    /\ BitAnd(cpu.status, UNUSED_STATUS_FLAG) # 0
    /\ cpu.pc = Rd(ram, 65532) + 256 * Rd(ram, 65533)
    /\ cpu.cycles = 0
    /\ cpu.sp = hist.pre.cpu.sp
    /\ \A a \in 256..511 : Rd(ram, a) = Rd(hist.pre.ram, a)

\* a reset with the I flag clear, debt outstanding and PC away from the vector
C10_Witness ==
  /\ hist.op = "Reset"
  /\ BitAnd(hist.pre.cpu.status, STATUS_FLAG_INTERRUPT_DISABLE) = 0
  /\ hist.pre.cpu.cycles > 0
  /\ hist.pre.cpu.pc # cpu.pc
  /\ hist.pre.cpu.sp = 1

(***************************************************************************)
(* The console driven by Bus.Run, with the cancel signal of its context.   *)
(* One loop iteration is four steps: the select, PPU.Tick, the CPU's turn, *)
(* and ticks += 1.                                                         *)
(***************************************************************************)
\* the number of bus ticks explored
MaxTicks == 40

\* LDA #$80; STA $2000; JMP $C005: enables NMI and idles; the handler is RTI
RunProgNMI ==
  Bytes(49152, <<169, 128, 141, 0, 32, 76, 5, 192>>) @@ Bytes(49168, <<64>>)
    @@ Vectors(49168, 49152, 49168)

\* LDA #$C0; STA $4014; NOP; JMP $C006: starts an OAM DMA from the ROM page
RunProgDMA ==
  Bytes(49152, <<169, 192, 141, 20, 64, 234, 76, 6, 192>>) @@ Bytes(49168, <<64>>)
    @@ Vectors(49168, 49152, 49168)

\* LDX #$05; DEX; BNE -3; then the byte 0x02, which is no opcode of the table
RunProgBad ==
  Bytes(49152, <<162, 2, 202, 208, 253, 2>>) @@ Bytes(49168, <<64>>)
    @@ Vectors(49168, 49152, 49168)

RunPrograms == {RunProgNMI, RunProgDMA, RunProgBad}

\* a one-bank NROM cartridge with horizontal mirroring holding prog at 0xC000
CartOf(prog, flags6) == NewCart(1, 1, flags6, Image(prog, 49152))

Init ==
  /\ \E prog \in RunPrograms : IsMach(NewConsole(CartOf(prog, 0)))
  /\ ticks = 0
  /\ runPos = "select"
  /\ cancelled = FALSE
  /\ hist = NoHist

\* a select whose default case is taken whether or not the context is done
selectCaseBlind(done) == "default"

\* the select of Run: the Done case when the context is cancelled, else default
selectCase(done) == IF done THEN "return" ELSE "default"

\* a turn rule that gives the CPU the tick after the one the code gives it
cpuTurnLate(t) == t % 3 = 1

\* if b.ticks%3 == 0
cpuTurn(t) == t % 3 = 0

\* case <-ctx.Done(): return
RunReturn ==
  /\ fault = "none" /\ runPos = "select"
  /\ selectCase(cancelled) = "return"
  /\ runPos' = "returned"
  /\ hist' = [hist EXCEPT !.op = "return"]
  /\ UNCHANGED <<cpu, ppu, ram, cart, fault, busKind, ticks, cancelled>>

\* default: the iteration begins
RunDefault ==
  /\ fault = "none" /\ runPos = "select"
  /\ selectCase(cancelled) = "default"
  /\ ticks < MaxTicks
  /\ runPos' = "ppu"
  /\ hist' = [hist EXCEPT !.op = "default",
                          !.afterCancel = IF cancelled THEN @ + 1 ELSE @]
  /\ UNCHANGED <<cpu, ppu, ram, cart, fault, busKind, ticks, cancelled>>

\* b.ppu.Tick()
RunPPUTick ==
  /\ fault = "none" /\ runPos = "ppu"
  /\ SetMach(Call("PPUTick", Mach, <<>>))
  /\ runPos' = "cpu"
  /\ hist' = [hist EXCEPT !.op = "PPUTick", !.ppuTicks = @ + 1]
  /\ UNCHANGED <<ticks, cancelled>>

\* if b.ticks%3 == 0 { b.cpu.Tick() }
RunCPUTick ==
  /\ fault = "none" /\ runPos = "cpu"
  /\ IF cpuTurn(ticks)
       THEN /\ SetMach(Call("Tick", Mach, <<>>))
            /\ hist' = [hist EXCEPT !.op = "CPUTick", !.cpuTicks = @ + 1]
       ELSE /\ SetMach(Mach)
            /\ hist' = [hist EXCEPT !.op = "skip"]
  /\ runPos' = "inc"
  /\ UNCHANGED <<ticks, cancelled>>

\* b.ticks += 1
RunCount ==
  /\ fault = "none" /\ runPos = "inc"
  /\ ticks' = ticks + 1
  /\ runPos' = "select"
  /\ hist' = [hist EXCEPT !.op = "count"]
  /\ UNCHANGED <<cpu, ppu, ram, cart, fault, busKind, cancelled>>

\* cancel() of the context, from the signal goroutine
Cancel ==
  /\ fault = "none" /\ ~cancelled /\ runPos # "returned"
  /\ cancelled' = TRUE
  /\ hist' = [hist EXCEPT !.limit = IF runPos = "select" THEN ticks ELSE ticks + 1]
  /\ UNCHANGED <<cpu, ppu, ram, cart, fault, busKind, ticks, runPos>>

\* where a step of Run takes the loop: the control flow of RunReturn,
\* RunDefault, RunPPUTick, RunCPUTick and RunCount without their effects
RunAdvance ==
  /\ fault = "none"
  /\ \/ runPos = "select" /\ selectCase(cancelled) = "return" /\ runPos' = "returned"
     \/ /\ runPos = "select" /\ selectCase(cancelled) = "default" /\ ticks < MaxTicks
        /\ runPos' = "ppu"
     \/ runPos = "ppu" /\ runPos' = "cpu"
     \/ runPos = "cpu" /\ runPos' = "inc"
     \/ runPos = "inc" /\ runPos' = "select"

Next ==
  \/ RunReturn
  \/ RunDefault
  \/ RunPPUTick
  \/ RunCPUTick
  \/ RunCount
  \/ Cancel

Spec == Init /\ [][Next]_vars

\* the goroutine running Bus.Run is scheduled again and again: whenever the
\* loop can go on, it does
SpecFair == Init /\ [][Next]_vars /\ WF_runPos(RunAdvance)

\* C1: every iteration of Run calls PPU.Tick once and then CPU.Tick exactly
\* when the completed bus ticks are a multiple of 3, so after n bus ticks the
\* PPU has ticked n times and the CPU ceil(n/3) times.
C1_TickRatio ==
  /\ runPos \in {"select", "returned", "ppu"} =>
       (hist.ppuTicks = ticks /\ hist.cpuTicks = (ticks + 2) \div 3)
  /\ runPos = "cpu" =>
       (hist.ppuTicks = ticks + 1 /\ hist.cpuTicks = (ticks + 2) \div 3)
  /\ runPos = "inc" =>
       /\ hist.ppuTicks = ticks + 1
       /\ hist.cpuTicks = (ticks + 2) \div 3 + (IF ticks % 3 = 0 THEN 1 ELSE 0)
  /\ (fault = "none" /\ runPos = "select") => ppu.scanline * 341 + ppu.scandot = ticks

\* seven bus ticks done: seven PPU ticks, three CPU ticks
C1_Witness ==
  /\ runPos = "select" /\ ticks = 7 /\ fault = "none"
  /\ hist.ppuTicks = 7 /\ hist.cpuTicks = 3 /\ ppu.scandot = 7

\* C9: once cancel has fired Run returns, having completed at most the bus
\* tick in progress: no iteration begins after the signal is there to see, the
\* tick count stays within the tick in progress, at return the started tick
\* is complete with the CPU's turn taken whole, and Run does return (unless
\* the emulator has crashed).
C9_CancelStopsRun ==
  /\ [](hist.afterCancel = 0)
  /\ [](cancelled => ticks <= hist.limit)
  /\ [](runPos = "returned" =>
          /\ cancelled
          /\ hist.ppuTicks = ticks
          /\ hist.cpuTicks = (ticks + 2) \div 3)
  /\ (cancelled ~> (runPos = "returned" \/ fault # "none"))

\* cancelled in the middle of a bus tick: that tick was finished, then Run returned
C9_Witness ==
  /\ runPos = "returned" /\ cancelled
  /\ hist.limit = 5 /\ ticks = 5 /\ hist.cpuTicks = 2

(***************************************************************************)
(* The console bus on its own: Bus.Read and Bus.Write called with chosen   *)
(* addresses and values (by the CPU's instructions, by the debugger's      *)
(* memory dump) on a console built from an accepted mapper 0 ROM.          *)
(***************************************************************************)
\* the number of bus accesses explored
MaxBusOps == 3

\* PRG-ROM contents: a few bytes at 0xC000 and 0xFF00 and the three vectors
BusPrg ==
  Bytes(49152, <<17, 34, 51>>) @@ Bytes(65280, <<68, 85>>)
    @@ Vectors(49168, 49152, 49168)

\* ROMs nesrom.New accepts for mapper 0: one bank with horizontal mirroring,
\* two banks with vertical mirroring, one bank with the four-screen bit set
BusCarts ==
  {NewCart(1, 1, 0, Image(BusPrg, 49152)),
   NewCart(2, 1, 1, Image(BusPrg, 32768)),
   NewCart(1, 1, IGNORE_MIRRORING, Image(BusPrg, 49152))}

\* addresses read: RAM and its mirror, PPUSTATUS, PPUDATA, a joystick port,
\* the top of the SRAM case, PRG-RAM's last byte, PRG-ROM's first and last,
\* and the first byte of PRG-ROM's upper half
BusReadAddrs == {0, 2048, 8194, 8199, 16406, 24576, 32767, 32768, 49152, 65535}

\* writes: RAM, OAMADDR, PPUADDR (0x20 then 0x00), PPUDATA, OAMDMA from the
\* pages 0x00, 0xC0 and 0xFF, PRG-RAM's first and second byte, PRG-ROM
BusWrites ==
  {<<0, 90>>, <<8195, 16>>, <<8198, 32>>, <<8198, 0>>, <<8199, 51>>,
   <<OAMDMA, 0>>, <<OAMDMA, 192>>, <<OAMDMA, 255>>, <<24576, 1>>, <<24577, 1>>,
   <<32768, 1>>}

InitBus ==
  /\ \E c \in BusCarts : IsMach(NewConsole(c))
  /\ ticks = 0
  /\ runPos = "idle"
  /\ cancelled = FALSE
  /\ hist = NoHist

BusGuard == fault = "none" /\ busKind = "console" /\ hist.n < MaxBusOps

\* b.Read(a)
BusReadOp ==
  /\ BusGuard
  /\ \E a \in BusReadAddrs :
       LET done(r) ==
             /\ SetMach(r.m)
             /\ hist' = [hist EXCEPT !.op = "Read", !.arg = <<a>>, !.ret = r.val,
                                     !.n = @ + 1, !.pre = Mach]
       IN done(Call("Read", Mach, <<a>>))
  /\ UNCHANGED <<ticks, runPos, cancelled>>

\* b.Write(w[1], w[2])
BusWriteOp ==
  /\ BusGuard
  /\ \E w \in BusWrites :
       /\ SetMach(Call("Write", Mach, w))
       /\ hist' = [hist EXCEPT !.op = "Write", !.arg = w, !.ret = 0,
                               !.n = @ + 1, !.pre = Mach]
  /\ UNCHANGED <<ticks, runPos, cancelled>>

NextBus ==
  \/ BusReadOp
  \/ BusWriteOp

SpecBus == InitBus /\ [][NextBus]_vars

\* C4: a write of val to 0x4014 writes OAMDATA exactly 256 times with the
\* bytes at (val<<8)+i, i = 0..255, in order, so that OAM[(oam_addr+i) mod 256]
\* holds the i-th byte, and adds exactly 513 to the CPU's cycle debt, for
\* every val in 0x00..0xFF.
C4_DMACopiesPage ==
  (hist.op = "Write" /\ hist.arg[1] = OAMDMA /\ fault = "none") =>
    /\ ppu.oamWrites = hist.pre.ppu.oamWrites + 256
    /\ \A i \in 0..255 :
         Rd(ppu.oamData, (hist.pre.ppu.oamaddr + i) % 256)
           = BusRead(hist.pre, hist.arg[2] * 256 + i).val
    /\ cpu.cycles = hist.pre.cpu.cycles + DMA_CYCLES

\* the write of 0xFF to 0x4014: no OAMDATA write at all, 513 cycles charged
C4_Witness ==
  /\ hist.op = "Write" /\ hist.arg = <<OAMDMA, 255>> /\ fault = "none"
  /\ ppu.oamWrites = hist.pre.ppu.oamWrites
  /\ ppu.oamData = hist.pre.ppu.oamData
  /\ cpu.cycles = hist.pre.cpu.cycles + DMA_CYCLES

\* C8: whatever the address and the value, Bus.Read and Bus.Write complete
\* without a fault (no panic, no index out of range) in every state reachable
\* with an accepted ROM.
C8_BusNeverFaults == hist.op \in {"Read", "Write"} => fault = "none"

\* a read of PPUDATA with v in the nametables, the ROM asking for four screens
C8_Witness ==
  /\ hist.op = "Read" /\ hist.arg = <<8199>>
  /\ ppu.mirrorMode = MIRROR_FOUR_SCREEN
  /\ hist.pre.ppu.v = 8192
  /\ fault = "four-screen mirroring"

\* C17: every CPU read or write whose address lies in 0x4020..0xFFFF is
\* forwarded to the mapper (PrgRead / PrgWrite), every address of the PRG-RAM
\* window 0x6000..0x7FFF included: the access returns what the mapper
\* returns and leaves the console as the mapper leaves it.
C17_MapperForwarded ==
  /\ (hist.op = "Read" /\ hist.arg[1] >= MAX_IO_REG) =>
       /\ hist.ret = PrgRead(hist.pre, hist.arg[1]).val
       /\ IsMach(PrgRead(hist.pre, hist.arg[1]).m)
  /\ (hist.op = "Write" /\ hist.arg[1] >= MAX_IO_REG) =>
       IsMach(PrgWrite(hist.pre, hist.arg[1], hist.arg[2]))

\* the write of 1 to 0x6000: the cartridge is as before, where the mapper
\* would have stored the byte in the first cell of its PRG-RAM
C17_Witness ==
  /\ hist.op = "Write" /\ hist.arg = <<24576, 1>>
  /\ fault = "none"
  /\ cart = hist.pre.cart
  /\ Rd(PrgWrite(hist.pre, 24576, 1).cart.prgRAM, 0) = 1
  /\ Rd(cart.prgRAM, 0) = 0

\* the last operation was a read, or a write, of a PRG-ROM address
PrgAccess(op) == hist.op = op /\ hist.arg[1] >= 32768

\* C29: with one 16 KB PRG bank, mapper 0 returns prg[(a - 0x8000) mod 0x4000]
\* for every CPU address a in 0x8000..0xFFFF, so a and a+0x4000 read the
\* same byte for every a in 0x8000..0xBFFF; with two banks it returns
\* prg[a - 0x8000] for every a in 0x8000..0xFFFF.
C29_PrgMirror ==
  PrgAccess("Read") =>
    LET c == hist.pre.cart
        off == hist.arg[1] - 32768
    IN /\ fault = "none"
       /\ hist.ret = Rd(c.prg, IF c.prgSize = 1 THEN off % PRG_BLOCK_SIZE ELSE off)

\* the read of 0x8000 with one bank: index 0xC000 of a 16 KB slice, where
\* 0xC000 reads the slice's first byte, 0x11
C29_Witness ==
  /\ PrgAccess("Read") /\ hist.arg = <<32768>>
  /\ cart.prgSize = 1
  /\ mapper0Index(cart, 32768).idx = 49152
  /\ fault = "index out of range"
  /\ MemRead(cart, 49152) = [ok |-> TRUE, val |-> 17]

\* C30: a CPU write through mapper 0 to any address in 0x8000..0xFFFF never
\* changes the byte subsequently read from any PRG-ROM address.
C30_PrgWriteIgnored ==
  PrgAccess("Write") =>
    /\ fault = "none"
    /\ \A a \in {x \in BusReadAddrs : x >= 32768} :
         MemRead(cart, a) = MemRead(hist.pre.cart, a)

\* the write of 1 to 0x8000 with two banks: 0x8000 read 0 before and reads
\* 1 now
C30_Witness ==
  /\ PrgAccess("Write") /\ hist.arg = <<32768, 1>>
  /\ cart.prgSize = 2
  /\ fault = "none"
  /\ MemRead(hist.pre.cart, 32768) = [ok |-> TRUE, val |-> 0]
  /\ MemRead(cart, 32768) = [ok |-> TRUE, val |-> 1]

(***************************************************************************)
(* The PPU's clock: PPU.Tick, with the CPU writing PPUCTRL and reading     *)
(* PPUSTATUS between ticks, around the start of vertical blanking.         *)
(***************************************************************************)
\* the number of ticks and register accesses explored
MaxPPUOps == 6

\* the console once it has ticked, its PPU registers never touched, from
\* power-on to dot `dot` of line `line` of the first frame, for a post-render
\* or vertical blanking line (240..260): the visible pixels are all rendered,
\* the last being 255/239, and VBLANK is up from 241/1 on
Idled(m, line, dot) ==
  [m EXCEPT !.ppu.scanline = line, !.ppu.scandot = dot,
            !.ppu.pixel = <<255, 239, 0>>,
            !.ppu.status = IF line > 241 \/ (line = 241 /\ dot >= 1)
                             THEN STATUS_VERTICAL_BLANK ELSE 0]

\* where the exploration starts: three dots before 241/1, and three dots
\* before the pre-render line clears VBLANK at 261/1
PPUStarts == {<<240, 339>>, <<260, 339>>}

InitPPU ==
  /\ \E s \in PPUStarts : IsMach(Idled(NewConsole(CartOf(RunProgNMI, 0)), s[1], s[2]))
  /\ ticks = 0
  /\ runPos = "idle"
  /\ cancelled = FALSE
  /\ hist = NoHist

PPUGuard == fault = "none" /\ busKind = "console" /\ hist.n < MaxPPUOps

\* b.ppu.Tick()
PPUTickOp ==
  /\ PPUGuard
  /\ SetMach(Call("PPUTick", Mach, <<>>))
  /\ hist' = [hist EXCEPT !.op = "PPUTick", !.n = @ + 1, !.pre = Mach]
  /\ UNCHANGED <<ticks, runPos, cancelled>>

\* a CPU write of PPUCTRL: NMI generation on or off
PPUWriteCtrlOp ==
  /\ PPUGuard
  /\ \E val \in {0, CTRL_GENERATE_NMI} :
       /\ SetMach(Call("Write", Mach, <<8192, val>>))
       /\ hist' = [hist EXCEPT !.op = "Write", !.arg = <<8192, val>>,
                               !.n = @ + 1, !.pre = Mach]
  /\ UNCHANGED <<ticks, runPos, cancelled>>

\* a CPU read of PPUSTATUS
PPUReadStatusOp ==
  /\ PPUGuard
  /\ LET done(r) ==
           /\ SetMach(r.m)
           /\ hist' = [hist EXCEPT !.op = "Read", !.arg = <<8194>>, !.ret = r.val,
                                   !.n = @ + 1, !.pre = Mach]
     IN done(Call("Read", Mach, <<8194>>))
  /\ UNCHANGED <<ticks, runPos, cancelled>>

NextPPU ==
  \/ PPUTickOp
  \/ PPUWriteCtrlOp
  \/ PPUReadStatusOp

SpecPPU == InitPPU /\ [][NextPPU]_vars

\* the call of Bus.TriggerNMI reached the CPU during the last operation
NMIAsserted ==
  /\ ppu.nmiCalls = hist.pre.ppu.nmiCalls + 1
  /\ cpu.pendingInterrupt = INT_NMI

\* C2: the tick that moves the scan position to 241/1 sets VBLANK in status,
\* and it asserts NMI to the CPU through the bus exactly when bit 7 of ctrl
\* is set at that tick; no other tick asserts NMI.
C2_VBlankNMI ==
  hist.op = "PPUTick" =>
    /\ (ppu.scanline = 241 /\ ppu.scandot = 1) =>
         BitAnd(ppu.status, STATUS_VERTICAL_BLANK) > 0
    /\ IF ppu.scanline = 241 /\ ppu.scandot = 1
            /\ BitAnd(hist.pre.ppu.ctrl, CTRL_GENERATE_NMI) > 0
         THEN NMIAsserted
         ELSE /\ ppu.nmiCalls = hist.pre.ppu.nmiCalls
              /\ cpu.pendingInterrupt = hist.pre.cpu.pendingInterrupt

\* the tick to 241/1 with NMI generation on: VBLANK up, NMI pending in the CPU
C2_Witness ==
  /\ hist.op = "PPUTick" /\ ppu.scanline = 241 /\ ppu.scandot = 1
  /\ BitAnd(hist.pre.ppu.ctrl, CTRL_GENERATE_NMI) > 0
  /\ BitAnd(ppu.status, STATUS_VERTICAL_BLANK) > 0
  /\ ppu.nmiCalls = 1 /\ cpu.pendingInterrupt = INT_NMI

(***************************************************************************)
(* Single instructions stepped through CPU.Step over the flat test memory, *)
(* from programs that first bring S, P and A to chosen values.             *)
(***************************************************************************)
\* the number of CPU method calls explored
MaxInstOps == 9

\* the number of Reset calls explored on one path
MaxResets == 1

\* the byte val in the stack page cell S+i, for the pop that finds it there
StackCell(s, i, val) == Bytes(STACK_PAGE + ((s + i) % 256), <<val>>)

\* status bytes pulled by RTI: none, B, U, B+U, C+V, N+V+C+Z, all but B and U,
\* all but U, all
FlagBytes == {0, 16, 32, 48, 65, 195, 207, 223, 255}

\* S as TXS sets it; the RTI that follows leaves S at 0xFF, 0x00, 0x01, 0x80
FlagStacks == {252, 253, 254, 125}

\* LDX #s; TXS; RTI, finding p and the address 0x0410 on the stack; at
\* 0x0410: PHP; PLP; LDA #$55; PHA; LDA #$00; PLA; JMP $0418
ProgFlags(s, p) ==
  Bytes(1024, <<162, s, 154, 64>>)
    @@ Bytes(1040, <<8, 40, 169, 85, 72, 169, 0, 104, 76, 24, 4>>)
    @@ StackCell(s, 1, p) @@ StackCell(s, 2, 16) @@ StackCell(s, 3, 4)
    @@ Bytes(1280, <<64>>) @@ Vectors(1280, 1024, 1280)

\* where the JSR is and where it goes: plain, its last byte on the next page,
\* the instruction after it on the next page, and a target that is the byte
\* after the JSR opcode
CallSites == {<<1280, 1536>>, <<1278, 1536>>, <<1533, 1792>>, <<1280, 1281>>}

\* subroutine bodies: RTS; PHA, PLA, RTS; PHA, RTS (which returns unbalanced)
CallBodies == {<<96>>, <<72, 104, 96>>, <<72, 96>>}

\* S at the JSR: no wrap, the second push wraps, the first push wraps
CallStacks == {255, 1, 0}

\* LDX #s; TXS; JMP a; at a: JSR t, then NOP; JMP a+3; the body is at t, or,
\* when t is a+1 and the JSR's own operand is the start of the subroutine, at
\* a+3 where that subroutine goes on
ProgCall(site, body, s) ==
  LET a == site[1]
      t == site[2]
  IN Bytes(1024, <<162, s, 154, 76, a % 256, a \div 256>>)
       @@ Bytes(a, <<32, t % 256, t \div 256>>)
       @@ Bytes(IF t = a + 1 THEN a + 3 ELSE t, body)
       @@ Bytes(a + 3, <<234, 76, (a + 3) % 256, (a + 3) \div 256>>)
       @@ Bytes(1024 + 256 + 512 + 256, <<64>>) @@ Vectors(2048, 1024, 2048)

\* operands of the addition: the ends and the middle of the signed and the
\* unsigned range
AddBytes == {0, 1, 63, 64, 127, 128, 129, 192, 255}

\* LDA #a; CLC or SEC; ADC #b or ADC $10 (the cell 0x10 holding b); JMP $0405
ProgAdd(a, b, c, zp) ==
  Bytes(1024, <<169, a, IF c = 1 THEN 56 ELSE 24,
                IF zp THEN 101 ELSE 105, IF zp THEN 16 ELSE b, 76, 5, 4>>)
    @@ Bytes(16, <<b>>)
    @@ Bytes(1280, <<64>>) @@ Vectors(1280, 1024, 1280)

InstPrograms ==
  {ProgFlags(s, p) : s \in FlagStacks, p \in FlagBytes}
    \cup {ProgCall(site, body, s) : site \in CallSites, body \in CallBodies,
                                    s \in CallStacks}
    \cup {ProgAdd(a, b, c, zp) : a \in AddBytes, b \in AddBytes, c \in {0, 1},
                                 zp \in BOOLEAN}

InitInst ==
  /\ \E image \in InstPrograms : IsMach(NewTestCPU(image))
  /\ ticks = 0
  /\ runPos = "idle"
  /\ cancelled = FALSE
  /\ hist = NoHist

InstGuard == fault = "none" /\ busKind = "mem" /\ hist.n < MaxInstOps

\* c.Step(); a JSR or a PHP about to execute is remembered with the place
\* and the registers it starts from
InstStepOp ==
  /\ InstGuard
  /\ LET code == IF cpu.pendingInterrupt = INT_NONE THEN Rd(ram, cpu.pc) ELSE -1
         mark == code \in {8, 32}
         done(r) ==
           /\ SetMach(r.m)
           /\ hist' = [hist EXCEPT
                !.op = "Step", !.ret = r.ret, !.n = @ + 1, !.pre = Mach,
                !.markOp = IF mark THEN (IF code = 8 THEN "PHP" ELSE "JSR") ELSE @,
                !.markAt = IF mark THEN cpu.pc ELSE @,
                !.markSp = IF mark THEN cpu.sp ELSE @,
                !.markP = IF mark THEN cpu.status ELSE @,
                !.markN = IF mark THEN hist.n + 1 ELSE @]
     IN done(Call("Step", Mach, <<>>))
  /\ UNCHANGED <<ticks, runPos, cancelled>>

\* c.Reset()
InstResetOp ==
  /\ InstGuard
  /\ hist.resets < MaxResets
  /\ SetMach(Call("Reset", Mach, <<>>))
  /\ hist' = [hist EXCEPT !.op = "Reset", !.ret = 0, !.n = @ + 1, !.pre = Mach,
                          !.resets = @ + 1, !.markOp = "", !.markAt = -1,
                          !.markSp = -1, !.markP = -1, !.markN = -1]
  /\ UNCHANGED <<ticks, runPos, cancelled>>

NextInst ==
  \/ InstStepOp
  \/ InstResetOp

SpecInst == InitInst /\ [][NextInst]_vars

\* the last operation was a Step that executed the instruction with this
\* opcode, and it completed
Executed(code) ==
  /\ hist.op = "Step"
  /\ hist.pre.cpu.pendingInterrupt = INT_NONE
  /\ Rd(hist.pre.ram, hist.pre.cpu.pc) = code
  /\ fault = "none"

\* C11: in every state reachable after reset, through any sequence of
\* instructions (PLP and RTI pulling arbitrary bytes included), bit 5 (U) of
\* P is 1.
C11_UnusedSet ==
  hist.resets > 0 => BitAnd(cpu.status, UNUSED_STATUS_FLAG) # 0

\* after a reset, an RTI that pulled a byte without bit 5: U is 0 in P
C11_Witness ==
  /\ hist.resets > 0
  /\ Executed(64)
  /\ cpu.status = 0

\* C12: bit 4 (B) of the live P register is 0 in every reachable CPU state,
\* from construction onward.
C12_BreakClear == BitAnd(cpu.status, STATUS_FLAG_BREAK) = 0

\* the CPU as New leaves it: P = U + B + I
C12_Witness ==
  /\ hist.op = "init"
  /\ cpu.status = UNUSED_STATUS_FLAG + STATUS_FLAG_BREAK + STATUS_FLAG_INTERRUPT_DISABLE

\* C13: every push writes to 0x0100+S and then decrements S modulo 256, and
\* every pop increments S modulo 256 and then reads 0x0100+S, so that all
\* stack accesses stay within 0x0100..0x01FF for any S.
C13_StackWraps ==
  LET pre == hist.pre
      s0 == pre.cpu.sp
      cell(i) == STACK_PAGE + ((s0 + 256 + i) % 256)
  IN /\ Executed(72) =>
          /\ Changed(pre.ram, ram) \subseteq {cell(0)}
          /\ Rd(ram, cell(0)) = pre.cpu.acc
          /\ cpu.sp = (s0 + 255) % 256
     /\ Executed(8) =>
          /\ Changed(pre.ram, ram) \subseteq {cell(0)}
          /\ Rd(ram, cell(0)) = BitOr(pre.cpu.status, STATUS_FLAG_BREAK)
          /\ cpu.sp = (s0 + 255) % 256
     /\ Executed(32) =>
          /\ Changed(pre.ram, ram) \subseteq {cell(0), cell(-1)}
          /\ Rd(ram, cell(0)) = U16(pre.cpu.pc + 2) \div 256
          /\ Rd(ram, cell(-1)) = U16(pre.cpu.pc + 2) % 256
          /\ cpu.sp = (s0 + 254) % 256
     /\ Executed(104) =>
          /\ ram = pre.ram
          /\ cpu.acc = Rd(pre.ram, cell(1))
          /\ cpu.sp = (s0 + 1) % 256
     /\ Executed(40) =>
          /\ ram = pre.ram
          /\ AndNot(cpu.status, STATUS_FLAG_BREAK + UNUSED_STATUS_FLAG)
               = AndNot(Rd(pre.ram, cell(1)), STATUS_FLAG_BREAK + UNUSED_STATUS_FLAG)
          /\ cpu.sp = (s0 + 1) % 256
     /\ Executed(96) =>
          /\ ram = pre.ram
          /\ cpu.pc = U16(Rd(pre.ram, cell(1)) + 256 * Rd(pre.ram, cell(2)) + 1)
          /\ cpu.sp = (s0 + 2) % 256
     /\ Executed(64) =>
          /\ ram = pre.ram
          /\ cpu.status = Rd(pre.ram, cell(1))
          /\ cpu.pc = Rd(pre.ram, cell(2)) + 256 * Rd(pre.ram, cell(3))
          /\ cpu.sp = (s0 + 3) % 256

\* PLA with S = 0xFF: S becomes 0x00 and A is the 0x55 that PHA, with
\* S = 0x00, had written to 0x0100
C13_Witness ==
  /\ Executed(104)
  /\ hist.pre.cpu.sp = 255
  /\ cpu.sp = 0
  /\ Rd(ram, STACK_PAGE) = 85
  /\ cpu.acc = 85

\* C14: for every P and S, PHP immediately followed by PLP leaves P equal to
\* its value before the PHP with B cleared and U set, and S equal to its value
\* before the PHP.
C14_PushPullStatus ==
  (Executed(40) /\ hist.markOp = "PHP" /\ hist.markN = hist.n - 1) =>
    /\ cpu.status = BitOr(AndNot(hist.markP, STATUS_FLAG_BREAK), UNUSED_STATUS_FLAG)
    /\ cpu.sp = hist.markSp

\* PHP then PLP from P = 0xDF (B set, U clear) with S = 0x00: P is 0xEF
C14_Witness ==
  /\ Executed(40) /\ hist.markOp = "PHP" /\ hist.markN = hist.n - 1
  /\ hist.markP = 207 + 16
  /\ hist.markSp = 0
  /\ cpu.status = 207 + 32
  /\ cpu.sp = 0

\* C15: for a JSR at any address a with any target, if the subroutine leaves
\* the stack balanced then its RTS returns control to a+3 and S is back to
\* its value before the JSR.
C15_CallReturns ==
  (Executed(96) /\ hist.markOp = "JSR"
     /\ hist.pre.cpu.sp = (hist.markSp + 254) % 256) =>
    /\ cpu.pc = U16(hist.markAt + 3)
    /\ cpu.sp = hist.markSp

\* the JSR at 0x04FE with S = 0x00, its subroutine PHA, PLA, RTS: back at
\* 0x0501 with S = 0x00
C15_Witness ==
  /\ Executed(96) /\ hist.markOp = "JSR"
  /\ hist.markAt = 1278
  /\ hist.markSp = 0
  /\ Rd(ram, hist.pre.cpu.pc - 1) = 104
  /\ cpu.pc = 1281
  /\ cpu.sp = 0

\* C16: for all 8-bit a, b and carry c, with D = 0, ADC with operand b from
\* A = a, C = c leaves A = (a+b+c) & 0xFF, C = bit 8 of a+b+c, V = 1 exactly
\* when ((a ^ A') & (b ^ A') & 0x80) != 0, and Z and N derived from the new A.
C16_AddWithCarry ==
  LET pre == hist.pre
      a == pre.cpu.acc
      arg == Rd(pre.ram, U16(pre.cpu.pc + 1))
      b == IF Executed(101) THEN Rd(pre.ram, arg) ELSE arg
      c == BitAnd(pre.cpu.status, STATUS_FLAG_CARRY)
      flag(f) == BitAnd(cpu.status, f) # 0
      kept == STATUS_FLAG_INTERRUPT_DISABLE + STATUS_FLAG_DECIMAL
                + STATUS_FLAG_BREAK + UNUSED_STATUS_FLAG
  IN ((Executed(105) \/ Executed(101))
        /\ BitAnd(pre.cpu.status, STATUS_FLAG_DECIMAL) = 0) =>
       /\ cpu.acc = (a + b + c) % 256
       /\ flag(STATUS_FLAG_CARRY) = (a + b + c >= 256)
       /\ flag(STATUS_FLAG_OVERFLOW)
            = (BitAnd(BitAnd(BitXor(a, cpu.acc), BitXor(b, cpu.acc)), 128) # 0)
       /\ flag(STATUS_FLAG_ZERO) = (cpu.acc = 0)
       /\ flag(STATUS_FLAG_NEGATIVE) = (cpu.acc >= 128)
       /\ BitAnd(cpu.status, kept) = BitAnd(pre.cpu.status, kept)

\* 0x7F + 0x00 + 1: A = 0x80 with V and N set, C and Z clear
C16_Witness ==
  /\ Executed(105)
  /\ hist.pre.cpu.acc = 127
  /\ Rd(ram, U16(hist.pre.cpu.pc + 1)) = 0
  /\ BitAnd(hist.pre.cpu.status, STATUS_FLAG_CARRY + STATUS_FLAG_DECIMAL) = 1
  /\ cpu.acc = 128
  /\ BitAnd(cpu.status, STATUS_FLAG_OVERFLOW + STATUS_FLAG_NEGATIVE
                        + STATUS_FLAG_CARRY + STATUS_FLAG_ZERO)
       = STATUS_FLAG_OVERFLOW + STATUS_FLAG_NEGATIVE

(***************************************************************************)
(* Whole frames of PPU.Tick, from the last dots of the first frame on,     *)
(* with the CPU turning rendering on or off during the pre-render line.    *)
(***************************************************************************)
\* the number of scanlines explored, counted from power-on: three frames
MaxLines == 786

\* the dots of the pre-render line at which PPUMASK is written: as the line
\* begins, and just before the tick that decides whether dot 340 is skipped
MaskDots == {1, 339}

InitFrame ==
  /\ IsMach(Idled(NewConsole(CartOf(RunProgNMI, 0)), 260, 339))
  /\ ticks = 0
  /\ runPos = "idle"
  /\ cancelled = FALSE
  /\ hist = NoHist

FrameGuard ==
  /\ fault = "none"
  /\ busKind = "console"
  /\ ppu.frame * 262 + ppu.scanline < MaxLines

\* b.ppu.Tick(); sinceWrap counts the ticks since the scan position last
\* wrapped to 0/0, and frameLen is that count at the tick that wraps again
FrameTickOp ==
  /\ FrameGuard
  /\ LET done(m) ==
           LET wrapped == m.ppu.scanline = 0 /\ m.ppu.scandot = 0
           IN /\ SetMach(m)
              /\ hist' = [hist EXCEPT
                   !.op = "PPUTick", !.arg = <<>>, !.pre = Mach,
                   !.sinceWrap = IF wrapped THEN 0
                                 ELSE IF @ >= 0 THEN @ + 1 ELSE @,
                   !.frameLen = IF wrapped /\ hist.sinceWrap >= 0
                                  THEN hist.sinceWrap + 1 ELSE -1]
     IN done(Call("PPUTick", Mach, <<>>))
  /\ UNCHANGED <<ticks, runPos, cancelled>>

\* a CPU write of PPUMASK that turns background rendering on, or all
\* rendering off
FrameWriteMaskOp ==
  /\ FrameGuard
  /\ prerenderLine(ppu) /\ ppu.scandot \in MaskDots
  /\ \E val \in {0, MASK_RENDER_BG} :
       /\ val # ppu.mask
       /\ SetMach(Call("Write", Mach, <<8193, val>>))
       /\ hist' = [hist EXCEPT !.op = "Write", !.arg = <<8193, val>>, !.pre = Mach,
                               !.frameLen = -1]
  /\ UNCHANGED <<ticks, runPos, cancelled>>

NextFrame ==
  \/ FrameTickOp
  \/ FrameWriteMaskOp

SpecFrame == InitFrame /\ [][NextFrame]_vars

\* C18: in every reachable PPU state, after any sequence of ticks and
\* register accesses, 0 <= scandot <= 340 and 0 <= scanline <= 261.
C18_ScanInRange ==
  /\ 0 <= ppu.scandot /\ ppu.scandot <= 340
  /\ 0 <= ppu.scanline /\ ppu.scanline <= 261

\* the tick at 261/340 has wrapped the position to 0/0
C18_Witness ==
  /\ hist.op = "PPUTick"
  /\ hist.pre.ppu.scanline = 261 /\ hist.pre.ppu.scandot = 340
  /\ ppu.scanline = 0 /\ ppu.scandot = 0

\* C19: the number of ticks between two consecutive wraps of the scan
\* position to 0/0 is 341*262 = 89342, except that it is 89341 when the frame
\* being completed is odd and rendering is enabled at the pre-render line's
\* skip point; the frame counter advances by exactly one at each wrap.
C19_FrameLength ==
  (hist.op = "PPUTick" /\ ppu.scanline = 0 /\ ppu.scandot = 0) =>
    /\ ppu.frame = hist.pre.ppu.frame + 1
    /\ hist.frameLen >= 0 =>
         hist.frameLen = IF hist.pre.ppu.oddFrame /\ renderingEnabled(hist.pre.ppu)
                           THEN 341 * 262 - 1 ELSE 341 * 262

\* the wrap that ends the odd frame with rendering on, 89341 ticks after
\* the wrap before it
C19_Witness ==
  /\ hist.op = "PPUTick" /\ ppu.scanline = 0 /\ ppu.scandot = 0
  /\ hist.pre.ppu.oddFrame /\ renderingEnabled(hist.pre.ppu)
  /\ hist.pre.ppu.scanline = 261 /\ hist.pre.ppu.scandot = 339
  /\ hist.frameLen = 89341
  /\ ppu.frame = 2

(***************************************************************************)
(* The CPU reading and writing the PPU's registers through the bus during  *)
(* the first frame, with and without the vertical blank flag up.           *)
(***************************************************************************)
\* the number of register accesses explored
MaxRegOps == 5

\* the cartridge whose CHR-ROM holds 0x5B in a cell the idle PPU never fetches
RegCart == [CartOf(RunProgNMI, 0) EXCEPT !.chr = Bytes(1, <<91>>)]

\* where the accesses start: before the vertical blank, and at its first dot
RegStarts == {<<240, 339>>, <<241, 1>>}

\* register writes: PPUADDR with 0x3F and 0x01, PPUSCROLL with 0x7D
RegWrites == {<<8198, 63>>, <<8198, 1>>, <<8197, 125>>}

InitReg ==
  /\ \E s \in RegStarts : IsMach(Idled(NewConsole(RegCart), s[1], s[2]))
  /\ ticks = 0
  /\ runPos = "idle"
  /\ cancelled = FALSE
  /\ hist = NoHist

RegGuard == fault = "none" /\ busKind = "console" /\ hist.n < MaxRegOps

\* b.Read(a) of PPUSTATUS or PPUDATA, or of a mirror of PPUSTATUS
RegReadOp ==
  /\ RegGuard
  /\ \E a \in {8194, 8199, 16378} :
       LET done(r) ==
             /\ SetMach(r.m)
             /\ hist' = [hist EXCEPT !.op = "Read", !.arg = <<a>>, !.ret = r.val,
                                     !.n = @ + 1, !.pre = Mach]
       IN done(Call("Read", Mach, <<a>>))
  /\ UNCHANGED <<ticks, runPos, cancelled>>

\* b.Write(w[1], w[2]) to PPUADDR or PPUSCROLL
RegWriteOp ==
  /\ RegGuard
  /\ \E w \in RegWrites :
       /\ SetMach(Call("Write", Mach, w))
       /\ hist' = [hist EXCEPT !.op = "Write", !.arg = w, !.ret = 0,
                               !.n = @ + 1, !.pre = Mach]
  /\ UNCHANGED <<ticks, runPos, cancelled>>

NextReg ==
  \/ RegReadOp
  \/ RegWriteOp

SpecReg == InitReg /\ [][NextReg]_vars

\* the last operation was a read of PPUSTATUS, at 0x2002 or at a mirror
StatusRead == hist.op = "Read" /\ BitAnd(hist.arg[1], 8199) = PPUSTATUS

\* C20: a read of PPUSTATUS returns (status & 0xE0) | (buffer_data & 0x1F)
\* computed from the values before the read, and afterwards VBLANK is clear
\* and the write latch w is 0, so the next PPUSCROLL or PPUADDR write is
\* treated as a first write.
C20_StatusRead ==
  LET p0 == hist.pre.ppu
      val == hist.arg[2]
  IN /\ StatusRead =>
          /\ hist.ret = BitOr(BitAnd(p0.status, 224), BitAnd(p0.bufferData, 31))
          /\ ppu = [p0 EXCEPT !.status = AndNot(@, STATUS_VERTICAL_BLANK),
                              !.wLatch = 0]
          /\ cpu = hist.pre.cpu /\ ram = hist.pre.ram /\ cart = hist.pre.cart
     /\ (hist.op = "Write" /\ hist.arg[1] = 8198 /\ p0.wLatch = 0) =>
          /\ ppu.wLatch = 1
          /\ ppu.t = BitOr(Shl16(BitAnd(val, 63), 8), BitAnd(p0.t, 255))
          /\ ppu.v = p0.v
     /\ (hist.op = "Write" /\ hist.arg[1] = 8197 /\ p0.wLatch = 0) =>
          /\ ppu.wLatch = 1
          /\ coarseX(ppu.t) = Shr(val, 3)
          /\ ppu.x = BitAnd(val, 7)
          /\ ppu.t - coarseX(ppu.t) = p0.t - coarseX(p0.t)

\* PPUSTATUS read with VBLANK up, 0x5B in the read buffer and the latch at
\* 1: the value is 0x9B, and VBLANK and the latch are down
C20_Witness ==
  /\ StatusRead
  /\ hist.pre.ppu.status = STATUS_VERTICAL_BLANK
  /\ hist.pre.ppu.bufferData = 91
  /\ hist.pre.ppu.wLatch = 1
  /\ hist.ret = 155
  /\ ppu.status = 0
  /\ ppu.wLatch = 0

(***************************************************************************)
(* The PPU's address registers through the bus: pairs of PPUSCROLL and     *)
(* PPUADDR writes, and PPUDATA reads and writes at the address they leave  *)
(* in v.                                                                   *)
(***************************************************************************)
\* the number of register accesses explored
MaxAddrOps == 4

\* the cartridge whose CHR-ROM starts with 0x5B, 0x4D
AddrCart == [CartOf(RunProgNMI, 0) EXCEPT !.chr = Bytes(0, <<91, 77>>)]

\* the bytes written to PPUSCROLL
ScrollBytes == {0, 125, 255}

\* the bytes written to PPUADDR: 0x3F and 0xFF both select the palette page
AddrBytes == {0, 63, 255}

\* the bytes written to PPUDATA
DataBytes == {42}

InitAddr ==
  /\ IsMach(NewConsole(AddrCart))
  /\ ticks = 0
  /\ runPos = "idle"
  /\ cancelled = FALSE
  /\ hist = NoHist

AddrGuard == fault = "none" /\ busKind = "console" /\ hist.n < MaxAddrOps

\* the last operation, as the one before the next
Last == [op |-> hist.op, arg |-> hist.arg, ret |-> hist.ret, pre |-> hist.pre]

\* b.Write(a, val), recorded with the operation before it
AddrWrite(a, val) ==
  /\ SetMach(Call("Write", Mach, <<a, val>>))
  /\ hist' = [hist EXCEPT !.op = "Write", !.arg = <<a, val>>, !.ret = 0,
                          !.n = @ + 1, !.pre = Mach, !.prev = Last]
  /\ UNCHANGED <<ticks, runPos, cancelled>>

\* b.Write(0x2005, val)
AddrScrollOp == AddrGuard /\ \E val \in ScrollBytes : AddrWrite(PPUSCROLL, val)

\* b.Write(0x2006, val)
AddrAddrOp == AddrGuard /\ \E val \in AddrBytes : AddrWrite(PPUADDR, val)

\* b.Write(0x2007, val)
AddrDataOp == AddrGuard /\ \E val \in DataBytes : AddrWrite(PPUDATA, val)

\* b.Read(0x2007)
AddrReadOp ==
  /\ AddrGuard
  /\ LET done(r) ==
           /\ SetMach(r.m)
           /\ hist' = [hist EXCEPT !.op = "Read", !.arg = <<PPUDATA>>, !.ret = r.val,
                                   !.n = @ + 1, !.pre = Mach, !.prev = Last]
     IN done(Call("Read", Mach, <<PPUDATA>>))
  /\ UNCHANGED <<ticks, runPos, cancelled>>

NextAddr ==
  \/ AddrScrollOp
  \/ AddrAddrOp
  \/ AddrDataOp
  \/ AddrReadOp

SpecAddr == InitAddr /\ [][NextAddr]_vars

\* the last two operations were writes to register r, the first of them
\* finding the write latch at 0
WritePair(r) ==
  /\ hist.op = "Write" /\ hist.arg[1] = r
  /\ hist.prev.op = "Write" /\ hist.prev.arg[1] = r
  /\ hist.prev.pre.ppu.wLatch = 0

\* C21: starting with w=0, two consecutive PPUSCROLL writes a then b leave
\* t.coarseX = a>>3, fine_x = a&7, t.coarseY = b>>3, t.fineY = b&7 and w=0,
\* for all bytes a and b and any prior value of t, without changing t's
\* nametable bits.
C21_ScrollWrites ==
  WritePair(PPUSCROLL) =>
    LET a == hist.prev.arg[2]
        b == hist.arg[2]
        t0 == hist.prev.pre.ppu.t
    IN /\ coarseX(ppu.t) = Shr(a, 3)
       /\ ppu.x = BitAnd(a, 7)
       /\ coarseY(ppu.t) = Shr(b, 3)
       /\ fineY(ppu.t) = BitAnd(b, 7)
       /\ ppu.wLatch = 0
       /\ BitAnd(ppu.t, 3072) = BitAnd(t0, 3072)

\* PPUSCROLL written with 0x7D twice while t's fine Y is 0: coarse X, fine
\* x and coarse Y are those of 0x7D, and fine Y is still 0 where 0x7D asks
\* for 5
C21_Witness ==
  /\ WritePair(PPUSCROLL)
  /\ hist.prev.arg[2] = 125 /\ hist.arg[2] = 125
  /\ fineY(hist.prev.pre.ppu.t) = 0
  /\ coarseX(ppu.t) = 15 /\ ppu.x = 5 /\ coarseY(ppu.t) = 15
  /\ fineY(ppu.t) = 0
  /\ ppu.wLatch = 0

\* C22: starting with w=0, two consecutive PPUADDR writes hi then lo leave
\* t = v = ((hi & 0x3F) << 8) | lo and w=0; the first write alone replaces
\* only the high byte of t (clearing bit 14 and above), sets w=1 and leaves
\* v unchanged.
C22_AddrWrites ==
  /\ WritePair(PPUADDR) =>
       LET hi == hist.prev.arg[2]
           lo == hist.arg[2]
       IN /\ ppu.t = BitAnd(hi, 63) * 256 + lo
          /\ ppu.v = ppu.t
          /\ ppu.wLatch = 0
  /\ (hist.op = "Write" /\ hist.arg[1] = PPUADDR /\ hist.pre.ppu.wLatch = 0) =>
       /\ ppu.t = BitAnd(hist.arg[2], 63) * 256 + BitAnd(hist.pre.ppu.t, 255)
       /\ ppu.t < 16384
       /\ ppu.wLatch = 1
       /\ ppu.v = hist.pre.ppu.v
  /\ (hist.op = "Write" /\ hist.arg[1] \in {PPUADDR, PPUSCROLL}) =>
       ppu = [hist.pre.ppu EXCEPT !.t = ppu.t, !.v = ppu.v, !.x = ppu.x,
                                  !.wLatch = ppu.wLatch]

\* PPUADDR written with 0xFF then 0x3F, after PPUSCROLL has put 0x7D into
\* t's low byte: t = v = 0x3F3F
C22_Witness ==
  /\ WritePair(PPUADDR)
  /\ hist.prev.arg[2] = 255 /\ hist.arg[2] = 63
  /\ hist.prev.pre.ppu.t % 256 # 63
  /\ hist.prev.pre.ppu.v # 16191
  /\ hist.pre.ppu.t \div 256 = 63
  /\ hist.pre.ppu.v = hist.prev.pre.ppu.v
  /\ ppu.t = 16191 /\ ppu.v = 16191 /\ ppu.wLatch = 0

\* the last operation was a read of PPUDATA
DataRead == hist.op = "Read" /\ hist.arg[1] = PPUDATA

\* C23: a PPUDATA read with v (taken modulo 0x4000) below 0x3F00 returns the
\* previous buffer_data and refills buffer_data with PPU[v]; a PPUDATA read
\* with v (modulo 0x4000) anywhere in 0x3F00..0x3FFF, including exactly
\* 0x3F00, returns the palette byte at v immediately.
C23_DataRead ==
  DataRead =>
    LET p0 == hist.pre.ppu
        at == read(hist.pre, p0.v).val
    IN IF p0.v % 16384 < PALETTE_RAM
         THEN hist.ret = p0.bufferData /\ ppu.bufferData = at
         ELSE hist.ret = at

\* PPUDATA read with v = 0x3F00, palette entry 0 holding 0 and the read
\* buffer holding 0x5B from CHR-ROM: the read returns 0x5B
C23_Witness ==
  /\ DataRead
  /\ hist.pre.ppu.v = PALETTE_RAM
  /\ hist.pre.ppu.bufferData = 91
  /\ read(hist.pre, PALETTE_RAM).val = 0
  /\ hist.ret = 91

(***************************************************************************)
(* The PPU's own address space: PPU.write and PPU.read applied to          *)
(* nametable and palette addresses, under horizontal and under vertical    *)
(* mirroring.                                                              *)
(***************************************************************************)
\* the number of PPU.write / PPU.read calls explored
MaxVramOps == 2

\* the first and the last byte of each of the four nametables
NametableAddrs == {8192, 9216, 10240, 11264, 9215, 10239, 11263, 12287}

\* the palette entries 0, 4, 8, 12 of the background and of the sprites
PaletteAddrs == {16128, 16132, 16136, 16140, 16144, 16148, 16152, 16156}

\* the bytes written
VramBytes == {42, 21}

InitVram ==
  /\ \E f \in {0, MIRRORING} : IsMach(NewConsole(CartOf(RunProgNMI, f)))
  /\ ticks = 0
  /\ runPos = "idle"
  /\ cancelled = FALSE
  /\ hist = NoHist

VramGuard == fault = "none" /\ busKind = "console" /\ hist.n < MaxVramOps

\* p.write(a, val)
VramWriteOp ==
  /\ VramGuard
  /\ \E a \in NametableAddrs \cup PaletteAddrs, val \in VramBytes :
       /\ SetMach(write(Mach, a, val))
       /\ hist' = [hist EXCEPT !.op = "write", !.arg = <<a, val>>, !.ret = 0,
                               !.n = @ + 1, !.pre = Mach, !.prev = Last]
  /\ UNCHANGED <<ticks, runPos, cancelled>>

\* p.read(a)
VramReadOp ==
  /\ VramGuard
  /\ \E a \in NametableAddrs \cup PaletteAddrs :
       LET done(r) ==
             /\ SetMach(r.m)
             /\ hist' = [hist EXCEPT !.op = "read", !.arg = <<a>>, !.ret = r.val,
                                     !.n = @ + 1, !.pre = Mach, !.prev = Last]
       IN done(read(Mach, a))
  /\ UNCHANGED <<ticks, runPos, cancelled>>

NextVram ==
  \/ VramWriteOp
  \/ VramReadOp

SpecVram == InitVram /\ [][NextVram]_vars

\* the last two calls were p.write(a, val) and then p.read(b)
WriteThenRead(a, b) ==
  /\ hist.prev.op = "write" /\ hist.prev.arg[1] = a
  /\ hist.op = "read" /\ hist.arg[1] = b

\* C24: for each pair (0x3F10, 0x3F00), (0x3F14, 0x3F04), (0x3F18, 0x3F08),
\* (0x3F1C, 0x3F0C) and every byte value val, after writing val to the first
\* PPU address a read of the second PPU address returns val.
C24_PaletteMirror ==
  \A i \in {0, 4, 8, 12} :
    WriteThenRead(PALETTE_RAM + 16 + i, PALETTE_RAM + i) =>
      hist.ret = hist.prev.arg[2]

\* 0x2A written to 0x3F10 and 0x3F00 read next: the byte is in palette cell
\* 0x10, and the read returns cell 0, which holds 0
C24_Witness ==
  /\ WriteThenRead(16144, 16128)
  /\ hist.prev.arg[2] = 42
  /\ Rd(ppu.paletteTable, 16) = 42
  /\ Rd(ppu.paletteTable, 0) = 0
  /\ hist.ret = 0

\* the nametable (0..3) of a nametable address
TableOf(a) == BitAnd(a, 4095) \div 1024

\* the vram cell PPU.read and PPU.write use for the nametable address a
CellOf(a) == tileMapAddr(ppu, BitAnd(a, 4095) + BASE_NAMETABLE)

\* the last two calls were made at nametable addresses
NametablePair ==
  /\ hist.op \in {"write", "read"} /\ hist.arg[1] \in NametableAddrs
  /\ hist.prev.op \in {"write", "read"} /\ hist.prev.arg[1] \in NametableAddrs

\* the last two calls, at nametable addresses a and b: both cells lie in
\* the 2 KB, a's twin is the same cell, and another group is another cell;
\* a read that follows a write sees the byte exactly when it should
C25_LastPair(twin, ga, gb) ==
  LET a == hist.prev.arg[1]
      b == hist.arg[1]
      stored == hist.prev.op = "write" /\ hist.op = "read"
  IN /\ ppu.mirrorMode \in {MIRROR_HORIZONTAL, MIRROR_VERTICAL}
     /\ fault = "none"
     /\ CellOf(a).ok /\ CellOf(a).idx < 2048
     /\ CellOf(b).ok /\ CellOf(b).idx < 2048
     /\ b = BitXor(a, twin) => CellOf(a).idx = CellOf(b).idx
     /\ ga # gb => CellOf(a).idx # CellOf(b).idx
     /\ (stored /\ b \in {a, BitXor(a, twin)}) => hist.ret = hist.prev.arg[2]
     /\ (stored /\ ga # gb) => hist.ret = read(hist.prev.pre, b).val

\* C25: under horizontal mirroring, nametable addresses a and a XOR 0x0400
\* (a in 0x2000..0x2FFF) map to the same VRAM byte and tables 0/1 never
\* alias tables 2/3; under vertical mirroring, a and a XOR 0x0800 map to the
\* same byte and tables 0/2 never alias tables 1/3; every mapped index lies
\* within the 2 KB VRAM.
C25_NametableMirror ==
  LET twin == IF ppu.mirrorMode = MIRROR_HORIZONTAL THEN 1024 ELSE 2048
      group(x) == IF ppu.mirrorMode = MIRROR_HORIZONTAL
                    THEN TableOf(x) \div 2 ELSE TableOf(x) % 2
  IN /\ hist.n = 0 =>
          \A x \in BASE_NAMETABLE..12287 :
            LET same(c) == /\ c.ok /\ c.idx < 2048
                           /\ c.idx \div 1024 = group(x)
                           /\ c.idx = CellOf(BitXor(x, twin)).idx
            IN same(CellOf(x))
     /\ NametablePair => C25_LastPair(twin, group(hist.prev.arg[1]), group(hist.arg[1]))

\* 0x15 written to the last byte of nametable 3 and read back from the last
\* byte of nametable 1 under vertical mirroring, from cell 0x7FF
C25_Witness ==
  /\ hist.prev.op = "write" /\ hist.prev.arg = <<12287, 21>>
  /\ hist.op = "read" /\ hist.arg = <<10239>>
  /\ ppu.mirrorMode = MIRROR_VERTICAL
  /\ CellOf(12287).idx = 2047
  /\ hist.ret = 21

(***************************************************************************)
(* main: nesrom.New on the file, mappers.Get on the ROM, console.New on    *)
(* the mapper, then the console runs (PPU ticks and CPU accesses to the    *)
(* PPU's address and data registers).  runPos is main's position; cart     *)
(* holds the file, then the ROM, then the mapper.                          *)
(***************************************************************************)
\* the number of ticks and accesses explored once the console runs
MaxLoadOps == 3

\* a 16-byte header: the four bytes of constant, PRG and CHR sizes, flags
\* 6, 7 and 8, and the five last bytes
HeaderOf(constant, prgSize, f6, f7, f8, tail) ==
  constant \o <<prgSize, 1, f6, f7, f8, 0, 0>> \o tail

\* the bytes a complete file holds after the header announced by hbytes
BodyOf(hbytes) ==
  (IF hasTrainer(parseHeader(hbytes)) THEN TRAINER_SIZE ELSE 0)
    + PRG_BLOCK_SIZE * hbytes[5] + CHR_BLOCK_SIZE * hbytes[6]
    + (IF hasPlayChoice(parseHeader(hbytes)) THEN PC_INST_SIZE + PC_PROM_SIZE ELSE 0)

\* headers: "NES\x1A" or "BOB\x1A"; one or two PRG banks; flags 6 with
\* horizontal, vertical and four-screen mirroring, a trainer, and mapper
\* nibbles 1 and 15; flags 7 plain, NES 2.0, with PlayChoice data, with
\* mapper nibble 15 and with both; byte 8 with 0 and 1; the last five bytes
\* zero, non-zero in byte 11 only, non-zero in byte 15
LoadHeaders ==
  {HeaderOf(c, n, f6, f7, f8, tail) :
     c \in {NesConstant, <<66, 79, 66, 26>>}, n \in {1, 2},
     f6 \in {0, 1, 8, 4, 16, 240}, f7 \in {0, 8, 2, 240, 248}, f8 \in {0, 1},
     tail \in {<<0, 0, 0, 0, 0>>, <<1, 0, 0, 0, 0>>, <<0, 0, 0, 0, 1>>}}

\* files: complete ones, ones a byte short, and one that ends in the header
LoadFiles ==
  {[hdr |-> hb, body |-> BodyOf(hb) - short,
    prg |-> Image(BusPrg, 65536 - PRG_BLOCK_SIZE * hb[5]),
    chr |-> Bytes(0, <<91>>)] : hb \in LoadHeaders, short \in {0, 1}}
  \cup {[hdr |-> SubSeq(NesConstant, 1, 3), body |-> 0, prg |-> Empty, chr |-> Empty]}

InitLoad ==
  /\ cart \in LoadFiles
  /\ cpu = Empty /\ ppu = Empty /\ ram = Empty
  /\ fault = "none"
  /\ busKind = "none"
  /\ ticks = 0
  /\ runPos = "start"
  /\ cancelled = FALSE
  /\ hist = NoHist

\* rom, err := nesrom.New(*romFile); log.Fatalf on an error
LoadNewOp ==
  /\ runPos = "start"
  /\ LET done(r) ==
           /\ cart' = IF r.err = "" THEN r.rom ELSE cart
           /\ runPos' = IF r.err = "" THEN "loaded" ELSE "exit"
           /\ hist' = [hist EXCEPT !.op = "New", !.arg = <<cart>>, !.ret = r.err]
     IN done(NewROM(cart))
  /\ UNCHANGED <<cpu, ppu, ram, fault, busKind, ticks, cancelled>>

\* m, err := mappers.Get(rom); log.Fatalf on an error
LoadGetOp ==
  /\ runPos = "loaded"
  /\ LET done(g) ==
           /\ cart' = IF g.err = "" THEN g.mapper ELSE cart
           /\ runPos' = IF g.err = "" THEN "mapped" ELSE "exit"
           /\ hist' = [hist EXCEPT !.op = "Get", !.arg = <<cart>>, !.ret = g.err]
     IN done(Get(cart))
  /\ UNCHANGED <<cpu, ppu, ram, fault, busKind, ticks, cancelled>>

\* gintendo := console.New(m)
LoadConsoleOp ==
  /\ runPos = "mapped"
  /\ SetMach(NewConsole(cart))
  /\ runPos' = "running"
  /\ hist' = [hist EXCEPT !.op = "console.New", !.arg = <<>>, !.ret = 0]
  /\ UNCHANGED <<ticks, cancelled>>

LoadGuard == runPos = "running" /\ fault = "none" /\ hist.n < MaxLoadOps

\* b.ppu.Tick()
LoadTickOp ==
  /\ LoadGuard
  /\ SetMach(Call("PPUTick", Mach, <<>>))
  /\ hist' = [hist EXCEPT !.op = "PPUTick", !.arg = <<>>, !.ret = 0,
                          !.n = @ + 1, !.pre = Mach]
  /\ UNCHANGED <<ticks, runPos, cancelled>>

\* b.Write(0x2006, 0x20) and b.Write(0x2007, 0x2A): written twice, 0x20
\* moves v to 0x2020 in the first nametable; 0x2A is stored at v
LoadWriteOp ==
  /\ LoadGuard
  /\ \E w \in {<<PPUADDR, 32>>, <<PPUDATA, 42>>} :
       /\ SetMach(Call("Write", Mach, w))
       /\ hist' = [hist EXCEPT !.op = "Write", !.arg = w, !.ret = 0,
                               !.n = @ + 1, !.pre = Mach]
  /\ UNCHANGED <<ticks, runPos, cancelled>>

NextLoad ==
  \/ LoadNewOp
  \/ LoadGetOp
  \/ LoadConsoleOp
  \/ LoadTickOp
  \/ LoadWriteOp

SpecLoad == InitLoad /\ [][NextLoad]_vars

\* what the loader was given: the header of the file nesrom.New was called
\* with
Loaded(err) == hist.op = "New" /\ hist.ret = err

\* C26: when the ROM selects four-screen mirroring and no cartridge VRAM is
\* available, the failure is raised at mapper initialisation (Get/Init
\* fails), so no PPU tick or nametable access is ever executed in
\* four-screen mode.
C26_FourScreenAtInit ==
  /\ (hist.op = "Get" /\ mirroringMode(hist.arg[1].h.flags6) = MIRROR_FOUR_SCREEN) =>
       hist.ret # "" /\ runPos = "exit"
  /\ (runPos = "running" /\ hist.op \in {"PPUTick", "Write"}) =>
       hist.pre.ppu.mirrorMode # MIRROR_FOUR_SCREEN

\* v = 0x2020 after two PPUADDR writes, and the PPUDATA write that follows
\* panics in tileMapAddr, in a console built from a four-screen ROM
C26_Witness ==
  /\ runPos = "running"
  /\ hist.op = "Write" /\ hist.arg = <<PPUDATA, 42>>
  /\ hist.pre.ppu.v = 8224
  /\ MirroringMode(cart) = MIRROR_FOUR_SCREEN
  /\ ppu.mirrorMode = MIRROR_FOUR_SCREEN
  /\ fault = "four-screen mirroring"

\* C27: for every header accepted by the loader, the mapper number equals
\* (byte6 >> 4) | (byte7 & 0xF0), extended with (byte8 & 0x0F) << 8 when the
\* header is NES 2.0, and with the upper nibble (from byte 7) dropped when
\* the header is not NES 2.0 and bytes 12..15 are not all zero.
C27_MapperNumber ==
  Loaded("") =>
    LET hb == hist.arg[1].hdr
        low == hb[7] \div 16
        full == low + 16 * (hb[8] \div 16)
        nes2 == isNES2Format(parseHeader(hb))
    IN MapperNum(cart) =
         IF nes2 THEN full + 256 * (hb[9] % 16)
         ELSE IF \E i \in 13..16 : hb[i] # 0 THEN low
         ELSE full

\* a NES 2.0 header with mapper nibbles 1 and 0 and with 1 in byte 8:
\* mapper 1 where the extension makes it 257
C27_Witness ==
  /\ Loaded("")
  /\ SubSeq(hist.arg[1].hdr, 1, 4) = NesConstant
  /\ hist.arg[1].hdr[7] = 16 /\ hist.arg[1].hdr[8] = 8 /\ hist.arg[1].hdr[9] = 1
  /\ isNES2Format(cart.h)
  /\ MapperNum(cart) = 1

\* C28: loading a ROM file whose first four bytes are not 4E 45 53 1A fails
\* with an "invalid ROM header" error and yields no ROM.
C28_BadMagicRejected ==
  (hist.op = "New" /\ Len(hist.arg[1].hdr) >= 4
     /\ SubSeq(hist.arg[1].hdr, 1, 4) # NesConstant) =>
    hist.ret = "invalid ROM header" /\ runPos = "exit"

\* a complete file that starts with "BOB\x1A": no error, and the ROM with
\* that constant in its header is what main goes on with
C28_Witness ==
  /\ Loaded("")
  /\ hist.arg[1].hdr[1] = 66
  /\ runPos = "loaded"
  /\ cart.h.constant = <<66, 79, 66, 26>>
  /\ cart.prg = hist.arg[1].prg

(***************************************************************************)
(* Interrupt requests and Reset (checked under SpecCPU).                   *)
(***************************************************************************)
\* the operation just recorded ran the interrupt entry of Step
EnteredStep ==
  \/ hist.op = "Step"
  \/ hist.op = "Tick" /\ hist.pre.cpu.cycles = 0

\* C37: once TriggerNMI has been called the request stays pending through
\* every CPU operation until a Step services it through the vector at
\* 0xFFFA; no TriggerIRQ call or other operation replaces or drops it.
C37_NMIKept ==
  (hist.n > 0 /\ hist.pre.cpu.pendingInterrupt = INT_NMI) =>
    IF EnteredStep
      THEN /\ cpu.pc = Read16(hist.pre, INT_NMI, "ABSOLUTE").val
           /\ cpu.pendingInterrupt = INT_NONE
      ELSE cpu.pendingInterrupt = INT_NMI

\* a TriggerIRQ call with I clear found an NMI pending and left an IRQ pending
C37_Witness ==
  /\ hist.op = "TriggerIRQ"
  /\ hist.pre.cpu.pendingInterrupt = INT_NMI
  /\ BitAnd(hist.pre.cpu.status, STATUS_FLAG_INTERRUPT_DISABLE) = 0
  /\ cpu.pendingInterrupt = INT_IRQ

\* C38: after Reset no interrupt is pending, and the Step that follows
\* executes the instruction at the reset vector exactly as it would with no
\* interrupt requested before the reset.
C38_ResetClearsPending ==
  hist.op = "Reset" =>
    /\ cpu.pendingInterrupt = INT_NONE
    /\ Step(Mach) = Step([Mach EXCEPT !.cpu.pendingInterrupt = INT_NONE])

\* a Reset after TriggerNMI: the next Step would enter the NMI handler
C38_Witness ==
  /\ hist.op = "Reset"
  /\ hist.pre.cpu.pendingInterrupt = INT_NMI
  /\ cpu.pc = Read16(Mach, INT_RESET, "ABSOLUTE").val
  /\ Step(Mach).m.cpu.pc = Read16(Mach, INT_NMI, "ABSOLUTE").val

(***************************************************************************)
(* Single instructions stepped over the flat test memory: control flow,    *)
(* branch and index timing, zero-page addressing and instruction lengths.  *)
(***************************************************************************)
\* the number of Step calls explored: three of set-up and the instruction
MaxModeOps == 4

\* where the instruction is placed: inside a page, with the next
\* instruction's first byte on the following page, and with its own last
\* byte (for two bytes) on the following page
ModeSites == {1024, 1278, 1279}

\* the values of X and Y at the instruction; Y also decides Z and N
ModeIndex == {0, 1, 255}

\* JMP $0401, JMP $0600, JMP ($0040), JSR $0401, JSR $0600, RTS, RTI, BRK
ModeJumps ==
  {<<76, 1, 4>>, <<76, 0, 6>>, <<108, 64, 0>>, <<32, 1, 4>>, <<32, 0, 6>>,
   <<96>>, <<64>>, <<0, 0>>}

\* BCC, BCS, BEQ, BNE with the offsets -1, +2, -3, +1 and 0
ModeBranches == {<<code, off>> : code \in {144, 176, 240, 208},
                                 off \in {255, 2, 253, 1, 0}}

\* stores and read-modify-writes through $05FF,X  $05FF,Y and ($40),Y (the
\* pointer at 0x40 holds 0x05FF): STA, INC, DEC, ASL, LSR, ROL, ROR, DCM, ISB
ModeStores ==
  {<<157, 255, 5>>, <<153, 255, 5>>, <<145, 64>>, <<254, 255, 5>>,
   <<222, 255, 5>>, <<30, 255, 5>>, <<94, 255, 5>>, <<62, 255, 5>>,
   <<126, 255, 5>>, <<223, 255, 5>>, <<219, 255, 5>>, <<211, 64>>,
   <<255, 255, 5>>, <<251, 255, 5>>, <<243, 64>>}

\* reads through the same modes: LDA $05FF,X  LDA $05FF,Y  LDA ($40),Y
ModeLoads == {<<189, 255, 5>>, <<185, 255, 5>>, <<177, 64>>}

\* zero-page indexing: LDA $80,X  LDX $80,Y  STA $80,X  STX $80,Y
\* LDA ($FF,X)  LDA ($80,X)  STA ($FF,X)  LDA ($FF),Y
ModeZeroPage ==
  {<<181, 128>>, <<182, 128>>, <<149, 128>>, <<150, 128>>, <<161, 255>>,
   <<161, 128>>, <<129, 255>>, <<177, 255>>}

\* lengths: NOP, LDA #$05, LDA $0600, and the table's NOP $0600 (0x0C), NOP
\* (0x1A), NOP $0600,X (0x1C), NOP (0x80) and SAX $0600 (0x8F)
ModeLengths ==
  {<<234>>, <<169, 5>>, <<173, 0, 6>>, <<12, 0, 6>>, <<26>>, <<28, 0, 6>>,
   <<128, 0>>, <<143, 0, 6>>}

ModeInstructions ==
  ModeJumps \cup ModeBranches \cup ModeStores \cup ModeLoads \cup ModeZeroPage
    \cup ModeLengths

\* the data the instructions find: pointers in page zero (0x40 -> 0x05FF,
\* 0xFF/0x00 -> 0x0610, 0x80 -> 0x0633), distinct bytes where a wrapped and an
\* unwrapped address would land, and a return address on the stack
ModeData ==
  Bytes(0, <<6>>) @@ Bytes(64, <<255, 5>>) @@ Bytes(127, <<17, 51, 6>>)
    @@ Bytes(255, <<16, 7>>) @@ Bytes(383, <<34>>) @@ Bytes(510, <<32, 6>>)
    @@ Bytes(1535, <<165, 90>>) @@ Bytes(1552, <<170, 171>>)
    @@ Bytes(1587, <<119>>) @@ Bytes(1808, <<187, 188>>)

\* LDA #$C3; LDX #x; LDY #y; then the instruction at the address at; the
\* IRQ/BRK vector is 0x0401
ModeProg(at, x, y, ins) ==
  Bytes(at - 6, <<169, 195, 162, x, 160, y>> \o ins) @@ ModeData
    @@ Vectors(1792, at - 6, 1025)

ModePrograms ==
  {ModeProg(at, x, y, ins) : at \in ModeSites, x \in ModeIndex, y \in ModeIndex,
                             ins \in ModeInstructions}

InitMode ==
  /\ \E image \in ModePrograms : IsMach(NewTestCPU(image))
  /\ ticks = 0
  /\ runPos = "idle"
  /\ cancelled = FALSE
  /\ hist = NoHist

ModeGuard == fault = "none" /\ busKind = "mem" /\ hist.n < MaxModeOps

\* c.Step()
ModeStepOp ==
  /\ ModeGuard
  /\ LET done(r) ==
           /\ SetMach(r.m)
           /\ hist' = [hist EXCEPT !.op = "Step", !.ret = r.ret, !.n = @ + 1,
                                   !.pre = Mach]
     IN done(Call("Step", Mach, <<>>))
  /\ UNCHANGED <<ticks, runPos, cancelled>>

NextMode == ModeStepOp

SpecMode == InitMode /\ [][NextMode]_vars

\* the last call was a Step that fetched and executed an opcode
Stepped ==
  /\ hist.op = "Step"
  /\ hist.n > 0
  /\ fault = "none"
  /\ hist.pre.cpu.pendingInterrupt = INT_NONE

\* the address of that opcode, the opcode byte, its table entry, its operand
\* bytes and the cycles the step added
StepAt == hist.pre.cpu.pc
StepCode == Rd(hist.pre.ram, StepAt)
StepOp == opcodes[StepCode]
StepLo == Rd(hist.pre.ram, U16(StepAt + 1))
StepHi == Rd(hist.pre.ram, U16(StepAt + 2))
StepWord == StepLo + 256 * StepHi
StepCharged == cpu.cycles - hist.pre.cpu.cycles

\* the 16-bit word in the cells a and b of the memory before the step
WordAt(a, b) == Rd(hist.pre.ram, a) + 256 * Rd(hist.pre.ram, b)

\* the 256-byte page of an address
PageOf(a) == a \div 256

\* the condition of a branch instruction, on the status before the step
BranchTaken(name, status) ==
  LET on(mask) == BitAnd(status, mask) > 0
  IN CASE name = "BCC" -> ~on(STATUS_FLAG_CARRY)
       [] name = "BCS" -> on(STATUS_FLAG_CARRY)
       [] name = "BNE" -> ~on(STATUS_FLAG_ZERO)
       [] name = "BEQ" -> on(STATUS_FLAG_ZERO)
       [] name = "BPL" -> ~on(STATUS_FLAG_NEGATIVE)
       [] name = "BMI" -> on(STATUS_FLAG_NEGATIVE)
       [] name = "BVC" -> ~on(STATUS_FLAG_OVERFLOW)
       [] name = "BVS" -> on(STATUS_FLAG_OVERFLOW)
       [] OTHER -> FALSE

\* the step executed a branch instruction
IsBranch == StepOp.mode = "RELATIVE"

\* where a branch goes: the signed offset added to the address of the
\* instruction that follows the branch
BranchTarget == U16(StepAt + 2 + Int8(StepLo) + 65536)

\* the step executed a taken branch, JMP, JSR, RTS, RTI or BRK
ControlFlow ==
  \/ IsBranch /\ BranchTaken(StepOp.name, hist.pre.cpu.status)
  \/ StepOp.name \in {"JMP", "JSR", "RTS", "RTI", "BRK"}

\* the address such an instruction computes, from the memory before the step
FlowTarget ==
  LET s == hist.pre.cpu.sp
      cell(i) == STACK_PAGE + U8(s + i)
  IN CASE IsBranch -> BranchTarget
       [] StepOp.name = "JSR" -> StepWord
       [] StepOp.name = "JMP" /\ StepOp.mode = "ABSOLUTE" -> StepWord
       [] StepOp.name = "JMP" /\ StepOp.mode = "INDIRECT" ->
            WordAt(StepWord, U16(StepWord + 1))
       [] StepOp.name = "RTS" -> U16(WordAt(cell(1), cell(2)) + 1)
       [] StepOp.name = "RTI" -> WordAt(cell(2), cell(3))
       [] StepOp.name = "BRK" -> WordAt(INT_BRK, INT_BRK + 1)
       [] OTHER -> -1

\* C31: after a step that executes a taken branch, JMP, JSR, RTS, RTI or BRK,
\* PC is exactly the target the instruction computed, whatever that target
\* is; no instruction length is added on top.
C31_FlowTarget ==
  (Stepped /\ ControlFlow) => cpu.pc = FlowTarget

\* a JMP whose target is the address of its own first operand byte was
\* stepped and PC ended two bytes beyond the target
C31_Witness ==
  /\ Stepped
  /\ StepOp.name = "JMP"
  /\ FlowTarget = U16(StepAt + 1)
  /\ cpu.pc = U16(FlowTarget + 2)

\* C32: a branch whose condition is false is charged 2 cycles; a taken branch
\* is charged 3 cycles, or 4 when its target lies in another 256-byte page
\* than the address of the instruction following the branch.
C32_BranchCycles ==
  (Stepped /\ IsBranch) =>
    IF BranchTaken(StepOp.name, hist.pre.cpu.status)
      THEN StepCharged =
             IF PageOf(BranchTarget) # PageOf(U16(StepAt + 2)) THEN 4 ELSE 3
      ELSE StepCharged = 2

\* a taken branch whose target is in the page of the following instruction
\* but not in the page of the branch opcode was charged 4 cycles
C32_Witness ==
  /\ Stepped
  /\ IsBranch
  /\ BranchTaken(StepOp.name, hist.pre.cpu.status)
  /\ PageOf(BranchTarget) = PageOf(U16(StepAt + 2))
  /\ PageOf(BranchTarget) # PageOf(StepAt)
  /\ StepCharged = 4

\* the step executed a store or read-modify-write instruction through
\* Absolute,X  Absolute,Y or (Indirect),Y
IndexedMode == StepOp.mode \in {"ABSOLUTE_X", "ABSOLUTE_Y", "INDIRECT_Y"}

StoreNames == {"STA", "ASL", "LSR", "ROL", "ROR", "INC", "DEC", "DCM", "ISB"}

\* the address before indexing and the index register of the step's mode
IndexBase ==
  IF StepOp.mode = "INDIRECT_Y" THEN WordAt(StepLo, U8(StepLo + 1)) ELSE StepWord

IndexReg ==
  IF StepOp.mode = "ABSOLUTE_X" THEN hist.pre.cpu.x ELSE hist.pre.cpu.y

\* indexing carried the address into another page
PageCrossed == PageOf(U16(IndexBase + IndexReg)) # PageOf(IndexBase)

\* C33: the page-crossing cycle of Absolute,X  Absolute,Y and (Indirect),Y is
\* added only to read-type instructions; stores and read-modify-writes (STA,
\* ASL, LSR, ROL, ROR, INC, DEC, DCM, ISB) are charged their table cycles
\* whether or not the indexed address crosses a page.
C33_StoreCycles ==
  (Stepped /\ IndexedMode) =>
    IF StepOp.name \in StoreNames
      THEN StepCharged = StepOp.cycles
      ELSE StepCharged = StepOp.cycles + (IF PageCrossed THEN 1 ELSE 0)

\* STA $05FF,X with X = 1 stored at 0x0600 and was charged 6 cycles
C33_Witness ==
  /\ Stepped
  /\ StepCode = 157
  /\ PageCrossed
  /\ Rd(ram, U16(IndexBase + IndexReg)) = hist.pre.cpu.acc
  /\ StepOp.cycles = 5
  /\ StepCharged = 6

\* the cell in page zero that ZeroPage,X or ZeroPage,Y addresses, and the
\* cell in page zero where (Indirect,X) or (Indirect),Y finds its pointer
ZeroPageCell ==
  U8(StepLo + (IF StepOp.mode = "ZERO_PAGE_X" THEN hist.pre.cpu.x
               ELSE hist.pre.cpu.y))

PointerCell ==
  IF StepOp.mode = "INDIRECT_X" THEN U8(StepLo + hist.pre.cpu.x) ELSE StepLo

\* the address an instruction of one of these four modes must access: the
\* pointer's low byte from PointerCell, its high byte from the next cell of
\* page zero, 0x00 following 0xFF
ZeroPageTarget ==
  LET ptr == WordAt(PointerCell, U8(PointerCell + 1))
  IN CASE StepOp.mode \in {"ZERO_PAGE_X", "ZERO_PAGE_Y"} -> ZeroPageCell
       [] StepOp.mode = "INDIRECT_X" -> ptr
       [] StepOp.mode = "INDIRECT_Y" -> U16(ptr + hist.pre.cpu.y)

ZeroPageModes == {"ZERO_PAGE_X", "ZERO_PAGE_Y", "INDIRECT_X", "INDIRECT_Y"}

\* C34: ZeroPage,X and ZeroPage,Y address the cell (operand + index) & 0xFF,
\* and (Indirect,X) and (Indirect),Y take both bytes of their pointer from
\* page zero, the high byte from (ptr + 1) & 0xFF, also when ptr is 0xFF:
\* loads return the byte at that address and stores change that cell alone.
C34_ZeroPageWrap ==
  (Stepped /\ StepOp.mode \in ZeroPageModes) =>
    LET v == Rd(hist.pre.ram, ZeroPageTarget)
    IN CASE StepOp.name = "LDA" -> cpu.acc = v /\ ram = hist.pre.ram
         [] StepOp.name = "LDX" -> cpu.x = v /\ ram = hist.pre.ram
         [] StepOp.name = "STA" ->
              /\ Rd(ram, ZeroPageTarget) = hist.pre.cpu.acc
              /\ Changed(ram, hist.pre.ram) \subseteq {ZeroPageTarget}
         [] StepOp.name = "STX" ->
              /\ Rd(ram, ZeroPageTarget) = hist.pre.cpu.x
              /\ Changed(ram, hist.pre.ram) \subseteq {ZeroPageTarget}
         [] OTHER -> TRUE

\* LDA ($FF,X) with X = 0 took the pointer 0x0610 from the cells 0xFF and
\* 0x00 and loaded the byte there, not the byte at 0x0710 that the cells
\* 0xFF and 0x100 point to
C34_Witness ==
  /\ Stepped
  /\ StepCode = 161
  /\ PointerCell = 255
  /\ ZeroPageTarget = 1552
  /\ WordAt(255, 256) = 1808
  /\ cpu.acc = 170
  /\ Rd(hist.pre.ram, 1808) = 187

\* the number of operand bytes of an addressing mode
OperandSize(mode) ==
  CASE mode \in {"IMPLICIT", "ACCUMULATOR"} -> 0
    [] mode \in {"IMMEDIATE", "ZERO_PAGE", "ZERO_PAGE_X", "ZERO_PAGE_Y",
                 "ZERO_PAGE_X_BUT_Y", "RELATIVE", "INDIRECT_X", "INDIRECT_Y"} -> 1
    [] mode \in {"ABSOLUTE", "ABSOLUTE_X", "ABSOLUTE_Y", "INDIRECT"} -> 2

\* the opcodes whose table length is not 1 plus the operand size of their mode
OddLengths ==
  {code \in DOMAIN opcodes :
     opcodes[code].bytes # 1 + OperandSize(opcodes[code].mode)}

\* C40: every opcode of the table has the length 1 plus the operand size of
\* its addressing mode, so that after a step of any instruction that is no
\* branch, jump, call, return or BRK, PC is at the next opcode byte.
C40_TableLengths ==
  /\ OddLengths = {}
  /\ (Stepped /\ ~IsBranch /\ StepOp.name \notin {"JMP", "JSR", "RTS", "RTI", "BRK"}) =>
       cpu.pc = U16(StepAt + 1 + OperandSize(StepOp.mode))

\* the NOP 0x0C, which reads a two-byte absolute operand, was stepped and PC
\* is at the second byte of that operand
C40_Witness ==
  /\ Stepped
  /\ StepCode = 12
  /\ StepOp.mode = "ABSOLUTE"
  /\ cpu.pc = U16(StepAt + 2)
  /\ 12 \in OddLengths

(***************************************************************************)
(* The scroll registers over the pre-render line and the first lines of a  *)
(* frame: the CPU writes PPUADDR and PPUSCROLL and may turn background     *)
(* rendering on during vertical blanking, then the PPU ticks.              *)
(***************************************************************************)
\* the number of PPUADDR/PPUSCROLL writes before the first tick
MaxScrollWrites == 2

\* the number of ticks explored: from 260/339 over the pre-render line and
\* lines 0..4 to beyond dot 257 of line 5
MaxScrollTicks == 2310

\* the bytes written: as the high byte of an address 0x23 is fine-Y 2 with
\* the top bits of coarse-Y set, 0x3E fine-Y 3 with both nametable bits;
\* as the low byte 0xA0 is coarse-Y +5 (29 with 0x23), 0xFE is coarse-Y +7
\* (31 with 0x23) and coarse-X 30
ScrollVals == {35, 160, 254, 62}

InitScroll ==
  /\ IsMach(Idled(NewConsole(CartOf(RunProgNMI, 0)), 260, 339))
  /\ ticks = 0
  /\ runPos = "idle"
  /\ cancelled = FALSE
  /\ hist = NoHist

ScrollGuard == fault = "none" /\ busKind = "console"

\* a CPU write of PPUADDR or PPUSCROLL during vertical blanking
ScrollWriteOp ==
  /\ ScrollGuard
  /\ hist.ppuTicks = 0 /\ ppu.mask = 0 /\ hist.n < MaxScrollWrites
  /\ \E r \in {PPUADDR, PPUSCROLL}, val \in ScrollVals :
       /\ SetMach(Call("Write", Mach, <<r, val>>))
       /\ hist' = [hist EXCEPT !.op = "Write", !.arg = <<r, val>>, !.n = @ + 1,
                               !.pre = Mach]
  /\ UNCHANGED <<ticks, runPos, cancelled>>

\* a CPU write of PPUMASK that turns background rendering on
ScrollWriteMaskOp ==
  /\ ScrollGuard
  /\ hist.ppuTicks = 0 /\ ppu.mask = 0
  /\ SetMach(Call("Write", Mach, <<PPUMASK, MASK_RENDER_BG>>))
  /\ hist' = [hist EXCEPT !.op = "Write", !.arg = <<PPUMASK, MASK_RENDER_BG>>,
                          !.pre = Mach]
  /\ UNCHANGED <<ticks, runPos, cancelled>>

\* b.ppu.Tick()
ScrollTickOp ==
  /\ ScrollGuard
  /\ hist.ppuTicks < MaxScrollTicks
  /\ SetMach(Call("PPUTick", Mach, <<>>))
  /\ hist' = [hist EXCEPT !.op = "PPUTick", !.arg = <<>>, !.pre = Mach,
                          !.ppuTicks = @ + 1]
  /\ UNCHANGED <<ticks, runPos, cancelled>>

NextScroll ==
  \/ ScrollWriteOp
  \/ ScrollWriteMaskOp
  \/ ScrollTickOp

SpecScroll == InitScroll /\ [][NextScroll]_vars

\* the last operation was a tick that found rendering enabled
RenderedTick == hist.op = "PPUTick" /\ renderingEnabled(hist.pre.ppu)

\* v as the horizontal increment of a tick at a multiple of eight dots
\* leaves it: coarse-X + 1, or 0 with nametable-X toggled after 31
AfterCoarseX(l) ==
  IF coarseX(l) = 31 THEN BitXor(BitAnd(l, 65504), 1024) ELSE l + 1

C36_VerticalCopy ==
  (RenderedTick /\ prerenderLine(ppu) /\ ppu.scandot >= 280 /\ ppu.scandot <= 304) =>
    /\ fineY(ppu.v) = fineY(ppu.t)
    /\ nametableY(ppu.v) = nametableY(ppu.t)
    /\ coarseY(ppu.v) = coarseY(ppu.t)
    /\ coarseX(ppu.v) = coarseX(hist.pre.ppu.v)
    /\ nametableX(ppu.v) = nametableX(hist.pre.ppu.v)

\* the tick to dot 280 found fine-Y 4 in v and 3 in t and left 0 in v
C36_Witness ==
  /\ RenderedTick /\ prerenderLine(ppu) /\ ppu.scandot = 280
  /\ fineY(hist.pre.ppu.v) = 4
  /\ fineY(ppu.t) = 3
  /\ fineY(ppu.v) = 0

\* bits 3 and 4 of a PPUMASK value are both clear
RenderingOff(mask) == BitAnd(mask, MASK_RENDER_BG + MASK_RENDER_FG) = 0

\* C39: while rendering is disabled (mask bits 3 and 4 clear) a PPU tick
\* changes none of v, t, fine x and the write latch.
C39_ScrollIdle ==
  (hist.op = "PPUTick" /\ RenderingOff(hist.pre.ppu.mask)) =>
    /\ ppu.v = hist.pre.ppu.v
    /\ ppu.t = hist.pre.ppu.t
    /\ ppu.x = hist.pre.ppu.x
    /\ ppu.wLatch = hist.pre.ppu.wLatch

\* a tick to dot 256 of a visible line with rendering off, fine x and v set
\* by earlier register writes
C39_Witness ==
  /\ hist.op = "PPUTick" /\ RenderingOff(hist.pre.ppu.mask)
  /\ visibleLine(ppu) /\ ppu.scandot = 256
  /\ ppu.v # 0
  /\ ppu.x # 0

====
